---- MODULE Spec2Model ----
(***************************************************************************)
(* Event adapter, subspace causality tracker and user activity aggregator  *)
(* of cRelay-crdt-db (package orbitdb), over a key-addressed document      *)
(* store with whole-document last-writer-wins Put.                         *)
(*                                                                         *)
(* A Go string is a sequence of one-character strings, so that splitting,  *)
(* parsing, formatting and suffix tests are computed and not assumed.      *)
(* A Go map is a function with a finite domain.  Timestamps written by     *)
(* the code from the wall clock (created, updated, last_updated, invite   *)
(* timestamp) are not modelled.  Numeric kinds and key ids stay below 2^31 *)
(* so uint32(kind) is the kind itself.                                     *)
(* The event ids, user ids and subspace ids of the inputs are pairwise      *)
(* distinct strings, so documents of different types never share a key.    *)
(***************************************************************************)
EXTENDS Integers, Sequences, FiniteSets, TLC

\* ------------------------------------------------------------------ bounds
\* operations started in a run of Spec (one request at a time)
MaxOps == 3
\* operations started in a run of SpecConc (two requests in flight)
MaxConcOps == 3
\* store operations that fail in a run of Spec
MaxFailures == 2
\* operations in a run of SpecAdapter
MaxAdapterOps == 2
\* store calls that fail within one operation of SpecAdapter
MaxRunFailures == 1
\* events saved before the queries of SpecQuery
MaxQuerySaves == 2
\* longest run of characters after the prefix of a candidate subspace id
MaxBodyLen == 65
\* events saved before the read accessors of SpecRead are called
MaxReadSaves == 2

\* ----------------------------------------------------------------- strings
EmptyStr == << >>

Digits == <<"0", "1", "2", "3", "4", "5", "6", "7", "8", "9">>

DigitChars == {Digits[i] : i \in 1..10}

HexChars == DigitChars \cup {"a", "b", "c", "d", "e", "f", "A", "B", "C", "D", "E", "F"}

DigitVal(c) == (CHOOSE i \in 1..10 : Digits[i] = c) - 1

\* s repeated n times
RECURSIVE Repeat(_, _)
Repeat(s, n) == IF n = 0 THEN EmptyStr ELSE s \o Repeat(s, n - 1)

HasPrefix(s, p) == Len(s) >= Len(p) /\ SubSeq(s, 1, Len(p)) = p

HasSuffix(s, p) == Len(s) >= Len(p) /\ SubSeq(s, Len(s) - Len(p) + 1, Len(s)) = p

\* strings.Split(s, sep) for a one-character separator: the pieces between
\* the separators, always at least one piece
RECURSIVE SplitFrom(_, _, _)
SplitFrom(s, sep, cur) ==
    IF s = EmptyStr THEN <<cur>>
    ELSE IF Head(s) = sep THEN <<cur>> \o SplitFrom(Tail(s), sep, EmptyStr)
    ELSE SplitFrom(Tail(s), sep, Append(cur, Head(s)))

Split(s, sep) == SplitFrom(s, sep, EmptyStr)

\* longest decimal literal the model parses; 9 digits stay below 2^31
MaxDigits == 9

\* strconv.ParseUint(s, 10, 32): ok iff s is a non-empty run of decimal digits
ParseUintOk(s) == Len(s) >= 1 /\ Len(s) <= MaxDigits /\ \A i \in 1..Len(s) : s[i] \in DigitChars

RECURSIVE ParseUintVal(_, _)
ParseUintVal(s, acc) ==
    IF s = EmptyStr THEN acc ELSE ParseUintVal(Tail(s), acc * 10 + DigitVal(Head(s)))

ParseUint(s) == ParseUintVal(s, 0)

\* fmt.Sprintf("%d", n) for n >= 0
RECURSIVE FormatUint(_)
FormatUint(n) ==
    IF n < 10 THEN <<Digits[n + 1]>> ELSE Append(FormatUint(n \div 10), Digits[(n % 10) + 1])

\* ------------------------------------------------------------------- maps
EmptyMap == << >>

MapGet(m, k) == IF k \in DOMAIN m THEN m[k] ELSE 0

MapPut(m, k, v) == [x \in (DOMAIN m) \cup {k} |-> IF x = k THEN v ELSE m[x]]

containsString(arr, str) == \E i \in 1..Len(arr) : arr[i] = str

\* ------------------------------------------------- tag names and constants
TagSid == <<"s", "i", "d">>
TagOps == <<"o", "p", "s">>
TagOp == <<"o", "p">>
TagVote == <<"v", "o", "t", "e">>
TagInviterAddr == <<"i", "n", "v", "i", "t", "e", "r", "_", "a", "d", "d", "r">>
VoteYes == <<"y", "e", "s">>
VoteNo == <<"n", "o">>

DocTypeNostrEvent == "nostr_event"
DocTypeCausality == "causality"
DocTypeUserStats == "user_stats"

KindSubspaceCreate == 30100
KindSubspaceJoin == 30200
KindVote == 30302
KindInvite == 30303

\* a slip: the loop has no break, the last tag called name wins
RECURSIVE TagValueLast(_, _)
TagValueLast(tags, name) ==
    IF tags = << >> THEN EmptyStr
    ELSE LET later == TagValueLast(Tail(tags), name)
         IN  IF later # EmptyStr THEN later
             ELSE IF Len(Head(tags)) >= 2 /\ Head(tags)[1] = name THEN Head(tags)[2]
             ELSE EmptyStr

\* value of the first tag called name that has at least two elements,
\* "" when there is none (the loops `len(tag) >= 2 && tag[0] == name`)
RECURSIVE TagValue(_, _)
TagValue(tags, name) ==
    IF tags = << >> THEN EmptyStr
    ELSE IF Len(Head(tags)) >= 2 /\ Head(tags)[1] = name THEN Head(tags)[2]
    ELSE TagValue(Tail(tags), name)

\* ------------------------------------------------------ IsValidSubspaceID
\* a slip: the prefix is not tested
IsValidSubspaceIDNoPrefix(sid) ==
    /\ Len(sid) = 66
    /\ \A i \in 3..Len(sid) : sid[i] \in HexChars

IsValidSubspaceID(sid) ==
    /\ Len(sid) = 66
    /\ HasPrefix(sid, <<"0", "x">>)
    /\ \A i \in 3..Len(sid) : sid[i] \in HexChars

\* ------------------------------------------------------------ parseOpsTag
\* map name -> key id of the well-formed pairs; a later pair with the same
\* name overwrites an earlier one
RECURSIVE parseOpsPairs(_, _)
parseOpsPairs(pairs, result) ==
    IF pairs = << >> THEN result
    ELSE LET kv == Split(Head(pairs), "=")
         IN  IF Len(kv) # 2 THEN parseOpsPairs(Tail(pairs), result)
             ELSE IF ~ParseUintOk(kv[2]) THEN parseOpsPairs(Tail(pairs), result)
             ELSE parseOpsPairs(Tail(pairs), MapPut(result, kv[1], ParseUint(kv[2])))

parseOpsTag(opsValue) == parseOpsPairs(Split(opsValue, ","), EmptyMap)

\* ------------------------------------------------------------- the inputs
UserA == <<"u", "A">>
UserB == <<"u", "B">>
Sub1 == <<"0", "x">> \o Repeat(<<"a">>, 64)
Sub2 == <<"0", "x">> \o Repeat(<<"B">>, 64)
BadSub == <<"0", "x", "1", "2", "3">>

Event(id, pubkey, created_at, kind, tags) ==
    [id |-> id, pubkey |-> pubkey, created_at |-> created_at, kind |-> kind,
     content |-> EmptyStr, sig |-> EmptyStr, tags |-> tags]

\* creation of Sub1 registering keys 2 and 30302 (the pair "x" is malformed)
EvCreate == Event(<<"c", "1">>, UserA, 100, KindSubspaceCreate,
                  <<<<TagSid, Sub1>>, <<TagOps, <<"a", "=", "2", ",", "v", "=", "3", "0", "3", "0", "2", ",", "x">>>>>>)
\* vote whose kind is a registered key, with an op tag
EvVoteYes == Event(<<"v", "1">>, UserA, 101, KindVote,
                   <<<<TagSid, Sub1>>, <<TagOp, <<"v", "o", "t", "e">>>>, <<TagVote, VoteYes>>>>)
\* vote whose kind is a registered key, without an op tag
EvVoteNo == Event(<<"v", "2">>, UserA, 102, KindVote,
                  <<<<TagSid, Sub1>>, <<TagVote, VoteNo>>>>)
\* kind 1 is no key; op "2" is a suffix of the keys 2 and 30302
EvPost == Event(<<"p", "1">>, UserB, 103, 1,
                <<<<TagSid, Sub1>>, <<TagOp, <<"2">>>>>>)
\* UserB accepts an invitation of UserA
EvInvite == Event(<<"i", "1">>, UserB, 104, KindInvite,
                  <<<<TagSid, Sub1>>, <<TagInviterAddr, UserA>>>>)
EvJoin == Event(<<"j", "1">>, UserB, 105, KindSubspaceJoin, <<<<TagSid, Sub1>>>>)
\* a vote without a subspace tag
EvPlain == Event(<<"n", "1">>, UserA, 106, KindVote, <<<<TagVote, VoteYes>>>>)
\* malformed subspace id, vote value neither yes nor no
EvBadSid == Event(<<"b", "1">>, UserA, 107, KindVote,
                  <<<<TagSid, BadSub>>, <<TagOp, <<"v", "o", "t", "e">>>>, <<TagVote, <<"m", "a", "y", "b", "e">>>>>>)
EvCreate2 == Event(<<"c", "2">>, UserB, 108, KindSubspaceCreate,
                   <<<<TagSid, Sub2>>, <<TagOps, <<"k", "=", "1">>>>>>)
\* UserA names itself as inviter
EvSelfInvite == Event(<<"i", "2">>, UserA, 109, KindInvite,
                      <<<<TagSid, Sub1>>, <<TagInviterAddr, UserA>>>>)
\* UserB joins with two subspace tags, Sub2 first
EvTwoSids == Event(<<"t", "1">>, UserB, 110, KindSubspaceJoin,
                   <<<<TagSid, Sub2>>, <<TagSid, Sub1>>>>)

\* a signed event with content, outside every subspace: its tags are a
\* one-element tag, a tag named twice and a tag with three elements
EvSigned ==
    [id |-> <<"g", "1">>, pubkey |-> UserB, created_at |-> 102, kind |-> 1,
     content |-> <<"h", "i">>, sig |-> <<"5", "f">>,
     tags |-> <<<<TagVote>>, <<TagOp, VoteNo>>, <<TagOp, VoteYes, VoteNo>>>>]

Events == {EvCreate, EvVoteYes, EvVoteNo, EvPost, EvInvite, EvJoin, EvPlain,
           EvBadSid, EvCreate2, EvSelfInvite, EvTwoSids, EvSigned}

\* events of the requests of Spec
SeqEvents == {EvCreate, EvVoteYes, EvVoteNo, EvPost, EvInvite, EvPlain, EvBadSid}

\* events of the requests that run concurrently in SpecConc
ConcEvents == {EvCreate, EvVoteYes}

\* events of the operations of SpecAdapter
AdapterEvents == {EvVoteYes, EvInvite, EvTwoSids, EvPlain}

\* events saved before the read accessors of SpecRead
ReadInputs == {EvCreate, EvVoteYes, EvJoin, EvCreate2, EvInvite, EvSigned}

\* events saved before the queries of SpecQuery
QueryInputs == {EvVoteYes, EvInvite, EvSelfInvite, EvPlain}

EventIDs == {e.id : e \in Events}

Users == {UserA, UserB}
Subspaces == {Sub1, Sub2, BadSub}

\* --------------------------------------------------------------- documents
\* the absent result of a discriminator-filtered fetch (a nil pointer)
NilDoc == [doc_type |-> "nil"]

IsNil(d) == d.doc_type = "nil"

\* the document SaveEvent and ReplaceEvent write for an event
EventDoc(e) ==
    [doc_type |-> DocTypeNostrEvent, id |-> e.id, pubkey |-> e.pubkey,
     created_at |-> e.created_at, kind |-> e.kind, content |-> e.content,
     sig |-> e.sig, tags |-> e.tags]

\* a VoteStats / InviteStats pointer; nil is TRUE for the nil pointer
NilVoteStats ==
    [nil |-> TRUE, total_votes |-> 0, yes_votes |-> 0, no_votes |-> 0,
     subspace_votes |-> EmptyMap]

NewVoteStats == [NilVoteStats EXCEPT !.nil = FALSE]

NewSubspaceVoteStats == [total_votes |-> 0, yes_votes |-> 0, no_votes |-> 0]

NilInviteStats ==
    [nil |-> TRUE, total_invited |-> 0, subspace_invited |-> EmptyMap,
     invited_users |-> EmptyMap]

NewInviteStats == [NilInviteStats EXCEPT !.nil = FALSE]

NewSubspaceCausality(subspaceID, e) ==
    [doc_type |-> DocTypeCausality, id |-> subspaceID, subspace_id |-> subspaceID,
     keys |-> EmptyMap, events |-> <<e.id>>]

NewUserStats(userID) ==
    [doc_type |-> DocTypeUserStats, id |-> userID, total_stats |-> EmptyMap,
     subspace_stats |-> EmptyMap, created_subspaces |-> << >>,
     joined_subspaces |-> << >>, vote_stats |-> NilVoteStats,
     invite_stats |-> NilInviteStats]

\* ------------------------------------------------------------------- store
\* db.Get(key): the documents held under key (at most one: Put replaces the
\* whole document under its _id)
Get(db, key) == IF key \in DOMAIN db THEN <<db[key]>> ELSE << >>

\* db.Put(doc): whole-document last-writer-wins under doc's _id
Put(db, doc) == MapPut(db, doc.id, doc)

\* first document of the wanted type among docs, nil when there is none
RECURSIVE FirstOfType(_, _)
FirstOfType(docs, docType) ==
    IF docs = << >> THEN NilDoc
    ELSE IF Head(docs).doc_type = docType THEN Head(docs)
    ELSE FirstOfType(Tail(docs), docType)

GetSubspaceCausality(db, subspaceID) == FirstOfType(Get(db, subspaceID), DocTypeCausality)

GetUserStats(db, userID) == FirstOfType(Get(db, userID), DocTypeUserStats)

\* ------------------------------------------------- Tracker: UpdateFromEvent
\* a slip: the tag value is not validated
TrackedSubspaceUnchecked(e) == TagValue(e.tags, TagSid)

\* the subspace the tracker updates for e, "" when it returns without I/O
TrackedSubspace(e) ==
    LET subspaceID == TagValue(e.tags, TagSid)
    IN  IF subspaceID # EmptyStr /\ IsValidSubspaceID(subspaceID) THEN subspaceID ELSE EmptyStr

\* a slip: the event id is appended without the membership test
WithEventAlways(causality, subspaceID, e) ==
    IF IsNil(causality) THEN NewSubspaceCausality(subspaceID, e)
    ELSE [causality EXCEPT !.events = Append(@, e.id)]

\* load-or-initialise and the event list
WithEvent(causality, subspaceID, e) ==
    IF IsNil(causality) THEN NewSubspaceCausality(subspaceID, e)
    ELSE IF containsString(causality.events, e.id) THEN causality
    ELSE [causality EXCEPT !.events = Append(@, e.id)]

\* the key ids a creation event registers
OpsKeyIDs(e) ==
    LET opsValue == TagValue(e.tags, TagOps)
        ops == parseOpsTag(opsValue)
    IN  IF opsValue = EmptyStr THEN {} ELSE {ops[n] : n \in DOMAIN ops}

\* creation: `causality.Keys[keyID] = 0` for every parsed key id
InitKeys(keys, e) ==
    [k \in (DOMAIN keys) \cup OpsKeyIDs(e) |-> IF k \in OpsKeyIDs(e) THEN 0 ELSE keys[k]]

\* the registered keys the fallback loop can stop at: the map is ranged over
\* in an unspecified order and the first suffix match is taken
SuffixKeys(keys, opName) == {k \in DOMAIN keys : HasSuffix(FormatUint(k), opName)}

\* a slip: the increment touches every registered key
IncrKeyAll(keys, k) == [x \in DOMAIN keys |-> keys[x] + 1]

\* `causality.Keys[k]++`
IncrKey(keys, k) == [keys EXCEPT ![k] = @ + 1]

\* the key maps UpdateFromEvent can produce from keys for event e
UpdatedKeys(keys, e) ==
    IF e.kind = KindSubspaceCreate THEN {InitKeys(keys, e)}
    ELSE LET opName == TagValue(e.tags, TagOp)
         IN  IF opName = EmptyStr THEN {keys}
             ELSE IF e.kind \in DOMAIN keys THEN {IncrKey(keys, e.kind)}
             ELSE IF SuffixKeys(keys, opName) = {} THEN {keys}
             ELSE {IncrKey(keys, k) : k \in SuffixKeys(keys, opName)}

\* a slip: an event that is already listed leaves the counters alone
UpdatedCausalityOnce(causality, subspaceID, e) ==
    LET c == WithEvent(causality, subspaceID, e)
    IN  IF ~IsNil(causality) /\ containsString(causality.events, e.id) THEN {c}
        ELSE {[c EXCEPT !.keys = nk] : nk \in UpdatedKeys(c.keys, e)}

\* the documents UpdateFromEvent can write after reading causality
UpdatedCausality(causality, subspaceID, e) ==
    LET c == WithEvent(causality, subspaceID, e)
    IN  {[c EXCEPT !.keys = nk] : nk \in UpdatedKeys(c.keys, e)}

\* -------------------------------------- Aggregator: UpdateUserStatsFromEvent
\* a slip: the counter is raised by two
BumpTwice(m, k) == MapPut(m, k, MapGet(m, k) + 2)

\* `m[k] = m[k] + 1`
Bump(m, k) == MapPut(m, k, MapGet(m, k) + 1)

\* a slip: the id is appended without the membership test
AppendAlways(arr, str) == Append(arr, str)

\* `if !containsString(arr, str) { arr = append(arr, str) }`
AppendNew(arr, str) == IF containsString(arr, str) THEN arr ELSE Append(arr, str)

\* a slip: yes and no are counted for the user but not for the subspace
WithVoteTopOnly(vs, subspaceID, e) ==
    LET v0 == IF vs.nil THEN NewVoteStats ELSE vs
        sv0 == IF subspaceID \in DOMAIN v0.subspace_votes
               THEN v0.subspace_votes[subspaceID] ELSE NewSubspaceVoteStats
        voteValue == TagValue(e.tags, TagVote)
        y == IF voteValue = VoteYes THEN 1 ELSE 0
        n == IF voteValue = VoteNo THEN 1 ELSE 0
        sv1 == [sv0 EXCEPT !.total_votes = @ + 1]
    IN  [nil |-> FALSE, total_votes |-> v0.total_votes + 1,
         yes_votes |-> v0.yes_votes + y, no_votes |-> v0.no_votes + n,
         subspace_votes |-> MapPut(v0.subspace_votes, subspaceID, sv1)]

\* the vote branch: totals at both levels, yes/no by the first vote tag
WithVote(vs, subspaceID, e) ==
    LET v0 == IF vs.nil THEN NewVoteStats ELSE vs
        sv0 == IF subspaceID \in DOMAIN v0.subspace_votes
               THEN v0.subspace_votes[subspaceID] ELSE NewSubspaceVoteStats
        voteValue == TagValue(e.tags, TagVote)
        y == IF voteValue = VoteYes THEN 1 ELSE 0
        n == IF voteValue = VoteNo THEN 1 ELSE 0
        sv1 == [total_votes |-> sv0.total_votes + 1, yes_votes |-> sv0.yes_votes + y,
                no_votes |-> sv0.no_votes + n]
    IN  [nil |-> FALSE, total_votes |-> v0.total_votes + 1,
         yes_votes |-> v0.yes_votes + y, no_votes |-> v0.no_votes + n,
         subspace_votes |-> MapPut(v0.subspace_votes, subspaceID, sv1)]

\* a slip: the per-subspace counters and lists are not touched
UpdatedUserStatsTotalOnly(stats, e) ==
    LET s0 == IF IsNil(stats) THEN NewUserStats(e.pubkey) ELSE stats
    IN  [s0 EXCEPT !.total_stats = Bump(@, e.kind)]

\* the author's document after the in-memory update of stats (nil or read)
UpdatedUserStats(stats, e) ==
    LET s0 == IF IsNil(stats) THEN NewUserStats(e.pubkey) ELSE stats
        kind == e.kind
        subspaceID == TagValue(e.tags, TagSid)
        s1 == [s0 EXCEPT !.total_stats = Bump(@, kind)]
        sub0 == IF subspaceID \in DOMAIN s1.subspace_stats
                THEN s1.subspace_stats[subspaceID] ELSE EmptyMap
        s2 == [s1 EXCEPT !.subspace_stats = MapPut(@, subspaceID, Bump(sub0, kind))]
    IN  IF subspaceID = EmptyStr THEN s1
        ELSE IF kind = KindSubspaceCreate
             THEN [s2 EXCEPT !.created_subspaces = AppendNew(@, subspaceID)]
        ELSE IF kind = KindSubspaceJoin
             THEN [s2 EXCEPT !.joined_subspaces = AppendNew(@, subspaceID)]
        ELSE IF kind = KindVote
             THEN [s2 EXCEPT !.vote_stats = WithVote(@, subspaceID, e)]
        ELSE s2

\* the inviter the invite branch updates, "" when it does not run
InviterOf(e) ==
    IF TagValue(e.tags, TagSid) # EmptyStr /\ e.kind = KindInvite
    THEN TagValue(e.tags, TagInviterAddr) ELSE EmptyStr

\* a slip: the overall number of invited users is not raised
UpdatedInviterStatsNoTotal(inviterStats, inviterID, invitedID, subspaceID) ==
    LET s0 == IF IsNil(inviterStats) THEN NewUserStats(inviterID) ELSE inviterStats
        i0 == IF s0.invite_stats.nil THEN NewInviteStats ELSE s0.invite_stats
        l0 == IF subspaceID \in DOMAIN i0.invited_users
              THEN i0.invited_users[subspaceID] ELSE << >>
        userInfo == [user_id |-> invitedID, subspace_id |-> subspaceID]
    IN  [s0 EXCEPT !.invite_stats =
            [nil |-> FALSE, total_invited |-> i0.total_invited,
             subspace_invited |-> Bump(i0.subspace_invited, subspaceID),
             invited_users |-> MapPut(i0.invited_users, subspaceID, Append(l0, userInfo))]]

\* a slip: the record names the inviter instead of the invitee
UpdatedInviterStatsSelf(inviterStats, inviterID, invitedID, subspaceID) ==
    LET s0 == IF IsNil(inviterStats) THEN NewUserStats(inviterID) ELSE inviterStats
        i0 == IF s0.invite_stats.nil THEN NewInviteStats ELSE s0.invite_stats
        l0 == IF subspaceID \in DOMAIN i0.invited_users
              THEN i0.invited_users[subspaceID] ELSE << >>
        userInfo == [user_id |-> inviterID, subspace_id |-> subspaceID]
    IN  [s0 EXCEPT !.invite_stats =
            [nil |-> FALSE, total_invited |-> i0.total_invited + 1,
             subspace_invited |-> Bump(i0.subspace_invited, subspaceID),
             invited_users |-> MapPut(i0.invited_users, subspaceID, Append(l0, userInfo))]]

\* updateInviterStats: the inviter's document after the in-memory update
UpdatedInviterStats(inviterStats, inviterID, invitedID, subspaceID) ==
    LET s0 == IF IsNil(inviterStats) THEN NewUserStats(inviterID) ELSE inviterStats
        i0 == IF s0.invite_stats.nil THEN NewInviteStats ELSE s0.invite_stats
        l0 == IF subspaceID \in DOMAIN i0.invited_users
              THEN i0.invited_users[subspaceID] ELSE << >>
        userInfo == [user_id |-> invitedID, subspace_id |-> subspaceID]
    IN  [s0 EXCEPT !.invite_stats =
            [nil |-> FALSE, total_invited |-> i0.total_invited + 1,
             subspace_invited |-> Bump(i0.subspace_invited, subspaceID),
             invited_users |-> MapPut(i0.invited_users, subspaceID, Append(l0, userInfo))]]

\* ------------------------------------------- Adapter: filters and queryFn
\* a nostr.Filter as QueryEvents and CountEvents read it: three lists and a
\* map from tag name to the list of allowed values
Filter(ids, authors, kinds, tags) ==
    [ids |-> ids, authors |-> authors, kinds |-> kinds, tags |-> tags]

NoFilter == Filter(<< >>, << >>, << >>, EmptyMap)

\* the tag names of the filters, in cases other than those of the events
TagSidUpper == <<"S", "I", "D">>
TagVoteMixed == <<"V", "o", "t", "e">>

\* the filters of the queries: every combination of these dimensions
FilterIDs == {<< >>, <<EvSelfInvite.id, EvPlain.id>>}
FilterAuthors == {<< >>, <<UserA>>}
FilterKinds == {<< >>, <<KindInvite, 1>>}
FilterTags == {EmptyMap, [n \in {TagSidUpper} |-> <<Sub2, Sub1>>],
               [n \in {TagVoteMixed, TagOp} |-> IF n = TagOp THEN << >> ELSE <<VoteNo>>]}

Filters ==
    {Filter(ids, authors, kinds, tags) :
        ids \in FilterIDs, authors \in FilterAuthors, kinds \in FilterKinds,
        tags \in FilterTags}

contains(slice, item) == \E i \in 1..Len(slice) : slice[i] = item

containsInt(slice, item) == \E i \in 1..Len(slice) : slice[i] = item

UpperChars == <<"A", "B", "C", "D", "E", "F", "G", "H", "I", "J", "K", "L", "M",
                "N", "O", "P", "Q", "R", "S", "T", "U", "V", "W", "X", "Y", "Z">>

LowerChars == <<"a", "b", "c", "d", "e", "f", "g", "h", "i", "j", "k", "l", "m",
                "n", "o", "p", "q", "r", "s", "t", "u", "v", "w", "x", "y", "z">>

\* simple case folding of an ASCII character
FoldChar(c) ==
    IF \E i \in 1..26 : UpperChars[i] = c
    THEN LowerChars[CHOOSE i \in 1..26 : UpperChars[i] = c] ELSE c

\* strings.EqualFold on ASCII strings
EqualFold(s, t) ==
    /\ Len(s) = Len(t)
    /\ \A i \in 1..Len(s) : FoldChar(s[i]) = FoldChar(t[i])

\* a document has the field and the type assertion on it succeeds; a stored
\* document comes back JSON-decoded, so a number is a float64, a list is a
\* []interface{} and the field "id" below stands for "_id"
HasField(doc, field) == field \in DOMAIN doc

\* a slip: the value of the tag is not compared
TagFoundAnyValue(tags, tagName, tagValues) ==
    \E i \in 1..Len(tags) :
       /\ Len(tags[i]) >= 2
       /\ EqualFold(tags[i][1], tagName)

\* the inner loop of queryFn: some tag of the event has the name, compared
\* without case, and one of the values
TagFound(tags, tagName, tagValues) ==
    \E i \in 1..Len(tags) :
       /\ Len(tags[i]) >= 2
       /\ EqualFold(tags[i][1], tagName)
       /\ contains(tagValues, tags[i][2])

\* the tag block of queryFn
TagsMatch(doc, filter) ==
    (DOMAIN filter.tags # {})
       => /\ HasField(doc, "tags")
          /\ \A tagName \in DOMAIN filter.tags :
                \/ Len(filter.tags[tagName]) = 0
                \/ TagFound(doc.tags, tagName, filter.tags[tagName])

\* a slip: a document passes when it satisfies one of the listed dimensions
QueryMatchesAny(doc, filter) ==
    /\ HasField(doc, "doc_type") /\ doc.doc_type = DocTypeNostrEvent
    /\ \/ Len(filter.ids) > 0 /\ HasField(doc, "id") /\ contains(filter.ids, doc.id)
       \/ Len(filter.authors) > 0 /\ HasField(doc, "pubkey")
             /\ contains(filter.authors, doc.pubkey)
       \/ Len(filter.kinds) > 0 /\ HasField(doc, "kind")
             /\ containsInt(filter.kinds, doc.kind)
       \/ Len(filter.ids) = 0 /\ Len(filter.authors) = 0 /\ Len(filter.kinds) = 0
    /\ TagsMatch(doc, filter)

\* queryFn of QueryEvents
QueryMatches(doc, filter) ==
    /\ HasField(doc, "doc_type") /\ doc.doc_type = DocTypeNostrEvent
    /\ Len(filter.ids) > 0 => (HasField(doc, "id") /\ contains(filter.ids, doc.id))
    /\ Len(filter.authors) > 0
          => (HasField(doc, "pubkey") /\ contains(filter.authors, doc.pubkey))
    /\ Len(filter.kinds) > 0
          => (HasField(doc, "kind") /\ containsInt(filter.kinds, doc.kind))
    /\ TagsMatch(doc, filter)

\* queryFn of CountEvents
CountMatches(doc, filter) ==
    /\ Len(filter.ids) > 0 => (HasField(doc, "id") /\ contains(filter.ids, doc.id))
    /\ Len(filter.authors) > 0
          => (HasField(doc, "pubkey") /\ contains(filter.authors, doc.pubkey))
    /\ Len(filter.kinds) > 0
          => (HasField(doc, "kind") /\ containsInt(filter.kinds, doc.kind))

\* the documents of the store
Documents(db) == {db[k] : k \in DOMAIN db}

\* db.Query(queryFn): the stored documents queryFn accepts; queryFn maps each
\* document to what the callback returns for it
Query(db, queryFn) == {doc \in Documents(db) : queryFn[doc]}

\* db.Delete(key)
Delete(db, key) == [x \in (DOMAIN db) \ {key} |-> db[x]]

\* the orders a set of documents can come back in
Orderings(S) ==
    {s \in [1..Cardinality(S) -> S] : \A i, j \in 1..Cardinality(S) : i # j => s[i] # s[j]}

\* a slip: content and signature are not copied from the document
DocToEventNoContent(doc) ==
    [id |-> IF HasField(doc, "id") THEN doc.id ELSE EmptyStr,
     pubkey |-> IF HasField(doc, "pubkey") THEN doc.pubkey ELSE EmptyStr,
     created_at |-> IF HasField(doc, "created_at") THEN doc.created_at ELSE 0,
     kind |-> IF HasField(doc, "kind") THEN doc.kind ELSE 0,
     content |-> EmptyStr,
     sig |-> EmptyStr,
     tags |-> IF HasField(doc, "tags") THEN doc.tags ELSE << >>]

\* the event QueryEvents builds from a document, field by field
DocToEvent(doc) ==
    [id |-> IF HasField(doc, "id") THEN doc.id ELSE EmptyStr,
     pubkey |-> IF HasField(doc, "pubkey") THEN doc.pubkey ELSE EmptyStr,
     created_at |-> IF HasField(doc, "created_at") THEN doc.created_at ELSE 0,
     kind |-> IF HasField(doc, "kind") THEN doc.kind ELSE 0,
     content |-> IF HasField(doc, "content") THEN doc.content ELSE EmptyStr,
     sig |-> IF HasField(doc, "sig") THEN doc.sig ELSE EmptyStr,
     tags |-> IF HasField(doc, "tags") THEN doc.tags ELSE << >>]

\* CountEvents: count++ for every document its queryFn accepts
CountEvents(db, filter) ==
    Cardinality(Query(db, [doc \in Documents(db) |-> CountMatches(doc, filter)]))

\* ------------------------------------------------------------------- state
\* store      the document store: _id -> document
\* pc         where each request is: idle, the store operation it is about
\*            to issue (put_event, t_get, t_put, a_get, inv_get, inv_put,
\*            a_put), or done
\* ev         the event of the request
\* causality  the tracker's in-memory document, to be written by t_put
\* stats      the aggregator's in-memory document of the author
\* inviterStats  the in-memory document of the inviter
\* perr, terr, aerr, ierr   the error of the primary write, of
\*            UpdateFromEvent, of UpdateUserStatsFromEvent and of
\*            updateInviterStats: "none" (not called or not returned yet),
\*            "nil" or "store"
\* ret        what SaveEvent returned: "none" while running, "nil", "store"
\* started, failures   requests started, store failures so far
\* pre        the store when the request started (history)
\* tlog, alog how many times UpdateFromEvent / UpdateUserStatsFromEvent
\*            wrote its document, per event id (history)
\* op         the adapter operation run last in one step: "none", "save",
\*            "replace" or "delete" (SpecAdapter, SpecQuery)
\* qfilter    the filter of the query in progress
\* qpc        where the producer goroutine of QueryEvents is: idle, query
\*            (about to call db.Query), check (the select at the head of
\*            the loop), send (building the event, about to enter the
\*            select around the channel send), parked (waiting in that
\*            select), closed
\* qdocs      the documents db.Query returned that are still to be sent
\* delivered  the events the consumer received from the channel
\* cancelled  ctx.Done() of the query is closed
\* cnt        what CountEvents returned for qfilter, -1 before it is called
\* candidate  the string handed to IsValidSubspaceID
\* verdict    what IsValidSubspaceID returned for candidate: "true", "false",
\*            "none" before it is called
\* call       the read accessor called last, its arguments, whether its
\*            store call succeeds, and what it returned (SpecRead); the
\*            call on the store handle made last and its error (SpecHandle)
\* handle     the package variables of init.go: initOnce (TRUE once its
\*            function ran), initialized, documentDB, orbitDB and ipfsNode
\*            ("nil", "open" or "closed"), dbName; calls counts the calls
\*            made, and promised says that an Init call returned nil and no
\*            Close call followed it (history)
VARIABLES store, pc, ev, causality, stats, inviterStats, perr, terr, aerr, ierr,
          ret, started, failures, pre, tlog, alog,
          op, qfilter, qpc, qdocs, delivered, cancelled, cnt,
          candidate, verdict, call, handle

\* the variables of a call of IsValidSubspaceID or of a read accessor on
\* its own
ivars == <<candidate, verdict, call, handle>>

\* the variables SaveEvent, ReplaceEvent and DeleteEvent work on
svars == <<store, pc, ev, causality, stats, inviterStats, perr, terr, aerr, ierr,
           ret, started, failures, pre, tlog, alog, op, ivars>>

\* the variables QueryEvents and CountEvents work on
qvars == <<qfilter, qpc, qdocs, delivered, cancelled, cnt, ivars>>

\* the variables of the adapter operations other than SaveEvent
avars == <<op, qfilter, qpc, qdocs, delivered, cancelled, cnt, ivars>>

vars == <<store, pc, ev, causality, stats, inviterStats, perr, terr, aerr, ierr,
          ret, started, failures, pre, tlog, alog,
          op, qfilter, qpc, qdocs, delivered, cancelled, cnt,
          candidate, verdict, call, handle>>

\* no accessor has been called
NoCall == [acc |-> "none"]

\* the package variables of init.go when the process starts
NoHandle ==
    [initOnce |-> FALSE, initialized |-> FALSE, documentDB |-> "nil",
     orbitDB |-> "nil", ipfsNode |-> "nil", dbName |-> EmptyStr,
     calls |-> 0, promised |-> FALSE]

Workers == {1, 2}

\* outcomes a store operation can have: success always, failure while the
\* failure budget lasts
Outcomes(limit) == IF failures < limit THEN {TRUE, FALSE} ELSE {TRUE}

Failed(ok) == failures' = IF ok THEN failures ELSE failures + 1

InitAdapter ==
    /\ store = EmptyMap
    /\ pc = [w \in Workers |-> "idle"]
    /\ ev = [w \in Workers |-> EvPlain]
    /\ causality = [w \in Workers |-> NilDoc]
    /\ stats = [w \in Workers |-> NilDoc]
    /\ inviterStats = [w \in Workers |-> NilDoc]
    /\ perr = [w \in Workers |-> "none"]
    /\ terr = [w \in Workers |-> "none"]
    /\ aerr = [w \in Workers |-> "none"]
    /\ ierr = [w \in Workers |-> "none"]
    /\ ret = [w \in Workers |-> "none"]
    /\ started = 0
    /\ failures = 0
    /\ pre = [w \in Workers |-> EmptyMap]
    /\ tlog = [id \in EventIDs |-> 0]
    /\ alog = [id \in EventIDs |-> 0]
    /\ op = "none"
    /\ qfilter = NoFilter
    /\ qpc = "idle"
    /\ qdocs = << >>
    /\ delivered = << >>
    /\ cancelled = FALSE
    /\ cnt = -1
    /\ call = NoCall
    /\ handle = NoHandle

Init ==
    /\ InitAdapter
    /\ candidate = EmptyStr
    /\ verdict = "none"

\* ------------------------------------------------- SaveEvent, step by step
\* a slip: the derived updates run whatever the primary Put returned
AfterPutAlways(e, ok) ==
    IF TrackedSubspace(e) = EmptyStr THEN "a_get" ELSE "t_get"

\* SaveEvent after the primary Put: its error is returned at once, otherwise
\* UpdateFromEvent runs, which returns nil without I/O for an event with no
\* (valid) subspace tag
AfterPut(e, ok) ==
    IF ~ok THEN "done"
    ELSE IF TrackedSubspace(e) = EmptyStr THEN "a_get" ELSE "t_get"

\* a slip: a failed derived update fails the save
SaveResultStrict(trackerErr, statsErr) ==
    IF trackerErr = "store" \/ statsErr = "store" THEN "store" ELSE "nil"

\* the value SaveEvent returns once the primary write succeeded
SaveResult(trackerErr, statsErr) == "nil"

\* a request enters SaveEvent with event e
Start(w, e, limit) ==
    /\ pc[w] \in {"idle", "done"}
    /\ started < limit
    /\ started' = started + 1
    /\ pc' = [pc EXCEPT ![w] = "put_event"]
    /\ ev' = [ev EXCEPT ![w] = e]
    /\ causality' = [causality EXCEPT ![w] = NilDoc]
    /\ stats' = [stats EXCEPT ![w] = NilDoc]
    /\ inviterStats' = [inviterStats EXCEPT ![w] = NilDoc]
    /\ perr' = [perr EXCEPT ![w] = "none"]
    /\ terr' = [terr EXCEPT ![w] = "none"]
    /\ aerr' = [aerr EXCEPT ![w] = "none"]
    /\ ierr' = [ierr EXCEPT ![w] = "none"]
    /\ ret' = [ret EXCEPT ![w] = "none"]
    /\ pre' = [pre EXCEPT ![w] = store]
    /\ UNCHANGED avars
    /\ UNCHANGED <<store, failures, tlog, alog>>

\* a.db.Put(ctx, doc) of the raw event
PutEvent(w, ok) ==
    /\ pc[w] = "put_event"
    /\ Failed(ok)
    /\ store' = IF ok THEN Put(store, EventDoc(ev[w])) ELSE store
    /\ perr' = [perr EXCEPT ![w] = IF ok THEN "nil" ELSE "store"]
    /\ pc' = [pc EXCEPT ![w] = AfterPut(ev[w], ok)]
    /\ terr' = [terr EXCEPT ![w] = IF AfterPut(ev[w], ok) = "a_get" THEN "nil" ELSE @]
    /\ ret' = [ret EXCEPT ![w] = IF ok THEN @ ELSE "store"]
    /\ UNCHANGED avars
    /\ UNCHANGED <<ev, causality, stats, inviterStats, aerr, ierr, started, pre,
                   tlog, alog>>

\* UpdateFromEvent: GetSubspaceCausality and the in-memory update
TrackerGet(w, ok) ==
    /\ pc[w] = "t_get"
    /\ Failed(ok)
    /\ IF ok
       THEN /\ \E doc \in UpdatedCausality(
                     GetSubspaceCausality(store, TrackedSubspace(ev[w])),
                     TrackedSubspace(ev[w]), ev[w]) :
                  causality' = [causality EXCEPT ![w] = doc]
            /\ pc' = [pc EXCEPT ![w] = "t_put"]
            /\ terr' = terr
       ELSE /\ causality' = causality
            /\ pc' = [pc EXCEPT ![w] = "a_get"]
            /\ terr' = [terr EXCEPT ![w] = "store"]
    /\ UNCHANGED avars
    /\ UNCHANGED <<store, ev, stats, inviterStats, perr, aerr, ierr, ret, started,
                   pre, tlog, alog>>

\* a slip: SaveEvent returns when the tracker's write failed
TrackerPutStrict(w, ok) ==
    /\ pc[w] = "t_put"
    /\ Failed(ok)
    /\ store' = IF ok THEN Put(store, causality[w]) ELSE store
    /\ tlog' = IF ok THEN [tlog EXCEPT ![ev[w].id] = @ + 1] ELSE tlog
    /\ terr' = [terr EXCEPT ![w] = IF ok THEN "nil" ELSE "store"]
    /\ pc' = [pc EXCEPT ![w] = IF ok THEN "a_get" ELSE "done"]
    /\ ret' = [ret EXCEPT ![w] = IF ok THEN @ ELSE "nil"]
    /\ UNCHANGED avars
    /\ UNCHANGED <<ev, causality, stats, inviterStats, perr, aerr, ierr,
                   started, pre, alog>>

\* UpdateFromEvent: cm.db.Put(ctx, doc)
TrackerPut(w, ok) ==
    /\ pc[w] = "t_put"
    /\ Failed(ok)
    /\ store' = IF ok THEN Put(store, causality[w]) ELSE store
    /\ tlog' = IF ok THEN [tlog EXCEPT ![ev[w].id] = @ + 1] ELSE tlog
    /\ terr' = [terr EXCEPT ![w] = IF ok THEN "nil" ELSE "store"]
    /\ pc' = [pc EXCEPT ![w] = "a_get"]
    /\ UNCHANGED avars
    /\ UNCHANGED <<ev, causality, stats, inviterStats, perr, aerr, ierr, ret,
                   started, pre, alog>>

\* UpdateUserStatsFromEvent: GetUserStats and the in-memory update
StatsGet(w, ok) ==
    /\ pc[w] = "a_get"
    /\ Failed(ok)
    /\ IF ok
       THEN /\ stats' = [stats EXCEPT ![w] =
                            UpdatedUserStats(GetUserStats(store, ev[w].pubkey), ev[w])]
            /\ pc' = [pc EXCEPT ![w] =
                         IF InviterOf(ev[w]) # EmptyStr THEN "inv_get" ELSE "a_put"]
            /\ UNCHANGED <<aerr, ret>>
       ELSE /\ stats' = stats
            /\ pc' = [pc EXCEPT ![w] = "done"]
            /\ aerr' = [aerr EXCEPT ![w] = "store"]
            /\ ret' = [ret EXCEPT ![w] = SaveResult(terr[w], "store")]
    /\ UNCHANGED avars
    /\ UNCHANGED <<store, ev, causality, inviterStats, perr, terr, ierr, started,
                   pre, tlog, alog>>

\* a slip: a failed read of the inviter's document ends the update
InviterGetStrict(w, ok) ==
    /\ pc[w] = "inv_get"
    /\ Failed(ok)
    /\ IF ok
       THEN /\ inviterStats' = [inviterStats EXCEPT ![w] =
                   UpdatedInviterStats(GetUserStats(store, InviterOf(ev[w])),
                                       InviterOf(ev[w]), ev[w].pubkey,
                                       TagValue(ev[w].tags, TagSid))]
            /\ pc' = [pc EXCEPT ![w] = "inv_put"]
            /\ UNCHANGED <<ierr, aerr, ret>>
       ELSE /\ inviterStats' = inviterStats
            /\ pc' = [pc EXCEPT ![w] = "done"]
            /\ ierr' = [ierr EXCEPT ![w] = "store"]
            /\ aerr' = [aerr EXCEPT ![w] = "store"]
            /\ ret' = [ret EXCEPT ![w] = SaveResult(terr[w], "store")]
    /\ UNCHANGED avars
    /\ UNCHANGED <<store, ev, causality, stats, perr, terr, started, pre, tlog, alog>>

\* updateInviterStats: GetUserStats of the inviter and the in-memory update
InviterGet(w, ok) ==
    /\ pc[w] = "inv_get"
    /\ Failed(ok)
    /\ IF ok
       THEN /\ inviterStats' = [inviterStats EXCEPT ![w] =
                   UpdatedInviterStats(GetUserStats(store, InviterOf(ev[w])),
                                       InviterOf(ev[w]), ev[w].pubkey,
                                       TagValue(ev[w].tags, TagSid))]
            /\ pc' = [pc EXCEPT ![w] = "inv_put"]
            /\ ierr' = ierr
       ELSE /\ inviterStats' = inviterStats
            /\ pc' = [pc EXCEPT ![w] = "a_put"]
            /\ ierr' = [ierr EXCEPT ![w] = "store"]
    /\ UNCHANGED avars
    /\ UNCHANGED <<store, ev, causality, stats, perr, terr, aerr, ret, started, pre,
                   tlog, alog>>

\* updateInviterStats: saveUserStats of the inviter
InviterPut(w, ok) ==
    /\ pc[w] = "inv_put"
    /\ Failed(ok)
    /\ store' = IF ok THEN Put(store, inviterStats[w]) ELSE store
    /\ ierr' = [ierr EXCEPT ![w] = IF ok THEN "nil" ELSE "store"]
    /\ pc' = [pc EXCEPT ![w] = "a_put"]
    /\ UNCHANGED avars
    /\ UNCHANGED <<ev, causality, stats, inviterStats, perr, terr, aerr, ret,
                   started, pre, tlog, alog>>

\* UpdateUserStatsFromEvent: saveUserStats of the author; SaveEvent returns
StatsPut(w, ok) ==
    /\ pc[w] = "a_put"
    /\ Failed(ok)
    /\ store' = IF ok THEN Put(store, stats[w]) ELSE store
    /\ alog' = IF ok THEN [alog EXCEPT ![ev[w].id] = @ + 1] ELSE alog
    /\ aerr' = [aerr EXCEPT ![w] = IF ok THEN "nil" ELSE "store"]
    /\ ret' = [ret EXCEPT ![w] = SaveResult(terr[w], IF ok THEN "nil" ELSE "store")]
    /\ pc' = [pc EXCEPT ![w] = "done"]
    /\ UNCHANGED avars
    /\ UNCHANGED <<ev, causality, stats, inviterStats, perr, terr, ierr, started,
                   pre, tlog>>

\* ---------------------------------------------------------- specifications
\* one request at a time
Next ==
    \/ \E e \in SeqEvents : Start(1, e, MaxOps)
    \/ \E ok \in Outcomes(MaxFailures) : PutEvent(1, ok)
    \/ \E ok \in Outcomes(MaxFailures) : TrackerGet(1, ok)
    \/ \E ok \in Outcomes(MaxFailures) : TrackerPut(1, ok)
    \/ \E ok \in Outcomes(MaxFailures) : StatsGet(1, ok)
    \/ \E ok \in Outcomes(MaxFailures) : InviterGet(1, ok)
    \/ \E ok \in Outcomes(MaxFailures) : InviterPut(1, ok)
    \/ \E ok \in Outcomes(MaxFailures) : StatsPut(1, ok)

Spec == Init /\ [][Next]_vars

\* two requests in flight, interleaved at their store operations; a request
\* takes the lowest free slot; the store does not fail and the events are
\* those of ConcEvents, none of which takes the inviter branch
NextConc ==
    \/ \E w \in Workers, e \in ConcEvents :
          /\ \A v \in Workers : v < w => pc[v] \notin {"idle", "done"}
          /\ Start(w, e, MaxConcOps)
    \/ \E w \in Workers : PutEvent(w, TRUE)
    \/ \E w \in Workers : TrackerGet(w, TRUE)
    \/ \E w \in Workers : TrackerPut(w, TRUE)
    \/ \E w \in Workers : StatsGet(w, TRUE)
    \/ \E w \in Workers : StatsPut(w, TRUE)

SpecConc == Init /\ [][NextConc]_vars

\* ------------------------------------- the adapter operations run to return
\* the store calls one SaveEvent or ReplaceEvent can issue, in order
StoreCalls == {"put", "t_get", "t_put", "a_get", "inv_get", "inv_put", "a_put"}

\* the sets of calls that fail in one operation: at most limit of them
FailureSets(limit) == {fails \in SUBSET StoreCalls : Cardinality(fails) <= limit}

\* a slip: an absent subspace document is not created
UpdateFromEventRunNoCreate(db, e, fails) ==
    LET subspaceID == TrackedSubspace(e)
    IN  IF subspaceID = EmptyStr THEN {[db |-> db, err |-> "nil"]}
        ELSE IF "t_get" \in fails THEN {[db |-> db, err |-> "store"]}
        ELSE IF IsNil(GetSubspaceCausality(db, subspaceID))
             THEN {[db |-> db, err |-> "nil"]}
        ELSE IF "t_put" \in fails THEN {[db |-> db, err |-> "store"]}
        ELSE {[db |-> Put(db, doc), err |-> "nil"] :
                 doc \in UpdatedCausality(GetSubspaceCausality(db, subspaceID),
                                          subspaceID, e)}

\* UpdateFromEvent from db to its return, when the calls of fails fail: the
\* stores and errors it can end with
UpdateFromEventRun(db, e, fails) ==
    LET subspaceID == TrackedSubspace(e)
    IN  IF subspaceID = EmptyStr THEN {[db |-> db, err |-> "nil"]}
        ELSE IF "t_get" \in fails THEN {[db |-> db, err |-> "store"]}
        ELSE IF "t_put" \in fails THEN {[db |-> db, err |-> "store"]}
        ELSE {[db |-> Put(db, doc), err |-> "nil"] :
                 doc \in UpdatedCausality(GetSubspaceCausality(db, subspaceID),
                                          subspaceID, e)}

\* updateInviterStats from db to its return
updateInviterStatsRun(db, inviterID, invitedID, subspaceID, fails) ==
    IF "inv_get" \in fails THEN [db |-> db, err |-> "store"]
    ELSE IF "inv_put" \in fails THEN [db |-> db, err |-> "store"]
    ELSE [db |-> Put(db, UpdatedInviterStats(GetUserStats(db, inviterID), inviterID,
                                             invitedID, subspaceID)),
          err |-> "nil"]

\* UpdateUserStatsFromEvent from db to its return: the author's document is
\* read first, the inviter's document is read and written, the author's
\* document is written last
UpdateUserStatsFromEventRun(db, e, fails) ==
    IF "a_get" \in fails THEN [db |-> db, err |-> "store", ierr |-> "none"]
    ELSE LET userStats == UpdatedUserStats(GetUserStats(db, e.pubkey), e)
             inv == IF InviterOf(e) = EmptyStr THEN [db |-> db, err |-> "none"]
                    ELSE updateInviterStatsRun(db, InviterOf(e), e.pubkey,
                                               TagValue(e.tags, TagSid), fails)
         IN  IF "a_put" \in fails
             THEN [db |-> inv.db, err |-> "store", ierr |-> inv.err]
             ELSE [db |-> Put(inv.db, userStats), err |-> "nil", ierr |-> inv.err]

\* the two derived updates after a primary write that succeeded
DerivedRun(db, e, fails) ==
    {LET a == UpdateUserStatsFromEventRun(t.db, e, fails)
     IN  [db |-> a.db, perr |-> "nil", terr |-> t.err, aerr |-> a.err,
          ierr |-> a.ierr] : t \in UpdateFromEventRun(db, e, fails)}

\* the outcome o of the derived updates with the value the operation returns
Returning(o, result) ==
    [db |-> o.db, ret |-> result, perr |-> o.perr, terr |-> o.terr,
     aerr |-> o.aerr, ierr |-> o.ierr]

\* the outcome of an operation whose primary write failed
PrimaryFailed(db) ==
    [db |-> db, ret |-> "store", perr |-> "store", terr |-> "none", aerr |-> "none",
     ierr |-> "none"]

\* SaveEvent from db to its return: the outcomes it can have
SaveEventRun(db, e, fails) ==
    IF AfterPut(e, "put" \notin fails) = "done" THEN {PrimaryFailed(db)}
    ELSE {Returning(o, SaveResult(o.terr, o.aerr)) :
             o \in DerivedRun(Put(db, EventDoc(e)), e, fails)}

\* a slip: the replaced document loses its tags
ReplaceDocNoTags(e) ==
    [doc_type |-> DocTypeNostrEvent, id |-> e.id, pubkey |-> e.pubkey,
     created_at |-> e.created_at, kind |-> e.kind, content |-> e.content,
     sig |-> e.sig, tags |-> << >>]

\* the document ReplaceEvent writes for an event
ReplaceDoc(e) ==
    [doc_type |-> DocTypeNostrEvent, id |-> e.id, pubkey |-> e.pubkey,
     created_at |-> e.created_at, kind |-> e.kind, content |-> e.content,
     sig |-> e.sig, tags |-> e.tags]

\* ReplaceEvent after its Put: TRUE when it returns the error at once
ReplaceReturnsAfterPut(e, ok) == ~ok

\* the value ReplaceEvent returns once its Put succeeded
ReplaceResult(trackerErr, statsErr) == "nil"

\* ReplaceEvent from db to its return: the outcomes it can have
ReplaceEventRun(db, e, fails) ==
    IF ReplaceReturnsAfterPut(e, "put" \notin fails) THEN {PrimaryFailed(db)}
    ELSE {Returning(o, ReplaceResult(o.terr, o.aerr)) :
             o \in DerivedRun(Put(db, ReplaceDoc(e)), e, fails)}

\* a slip: the delete cascades into the subspace document of the event
DeleteEventCascade(db, e, ok) ==
    IF ok THEN [db |-> Delete(Delete(db, e.id), TrackedSubspace(e)), ret |-> "nil"]
    ELSE [db |-> db, ret |-> "store"]

\* DeleteEvent from db to its return
DeleteEventRun(db, e, ok) ==
    IF ok THEN [db |-> Delete(db, e.id), ret |-> "nil"]
    ELSE [db |-> db, ret |-> "store"]

\* --------------------------------------- the adapter operations as steps
\* an operation of request 1 ran from its call to its return with outcome o
Returned(name, e, o) ==
    /\ op' = name
    /\ store' = o.db
    /\ started' = started + 1
    /\ pc' = [pc EXCEPT ![1] = "done"]
    /\ ev' = [ev EXCEPT ![1] = e]
    /\ pre' = [pre EXCEPT ![1] = store]
    /\ perr' = [perr EXCEPT ![1] = o.perr]
    /\ terr' = [terr EXCEPT ![1] = o.terr]
    /\ aerr' = [aerr EXCEPT ![1] = o.aerr]
    /\ ierr' = [ierr EXCEPT ![1] = o.ierr]
    /\ ret' = [ret EXCEPT ![1] = o.ret]
    /\ tlog' = IF o.terr = "nil" /\ TrackedSubspace(e) # EmptyStr
               THEN [tlog EXCEPT ![e.id] = @ + 1] ELSE tlog
    /\ alog' = IF o.aerr = "nil" THEN [alog EXCEPT ![e.id] = @ + 1] ELSE alog
    /\ UNCHANGED <<causality, stats, inviterStats, failures>>

\* SaveEvent(event), one call at a time
SaveEvent(e, limit, maxFail) ==
    /\ started < limit
    /\ \E fails \in FailureSets(maxFail) :
          \E o \in SaveEventRun(store, e, fails) : Returned("save", e, o)
    /\ UNCHANGED qvars

\* ReplaceEvent(event), one call at a time
ReplaceEvent(e, limit, maxFail) ==
    /\ started < limit
    /\ \E fails \in FailureSets(maxFail) :
          \E o \in ReplaceEventRun(store, e, fails) : Returned("replace", e, o)
    /\ UNCHANGED qvars

\* DeleteEvent(event), one call at a time
DeleteEvent(e, limit, ok) ==
    /\ started < limit
    /\ Returned("delete", e,
                [db |-> DeleteEventRun(store, e, ok).db,
                 ret |-> DeleteEventRun(store, e, ok).ret,
                 perr |-> "none", terr |-> "none", aerr |-> "none", ierr |-> "none"])
    /\ UNCHANGED qvars

\* save, replace and delete, one operation at a time
NextAdapter ==
    \/ \E e \in AdapterEvents : SaveEvent(e, MaxAdapterOps, MaxRunFailures)
    \/ \E e \in AdapterEvents : ReplaceEvent(e, MaxAdapterOps, MaxRunFailures)
    \/ \E e \in AdapterEvents, ok \in BOOLEAN : DeleteEvent(e, MaxAdapterOps, ok)

SpecAdapter == Init /\ [][NextAdapter]_vars

\* ------------------------------------------------ QueryEvents, CountEvents
\* QueryEvents(ctx, filter): the channel is made, the producer goroutine is
\* started and the channel is returned with a nil error
QueryEvents(f) ==
    /\ qpc \in {"idle", "closed"}
    /\ qfilter' = f
    /\ qpc' = "query"
    /\ qdocs' = << >>
    /\ delivered' = << >>
    /\ cancelled' = FALSE
    /\ cnt' = -1
    /\ UNCHANGED svars

\* the producer calls db.Query and enters the loop over the documents, or
\* closes the channel when there is none
ProducerQuery ==
    /\ qpc = "query"
    /\ \E docs \in Orderings(Query(store, [doc \in Documents(store) |->
                                                 QueryMatches(doc, qfilter)])) :
          /\ qdocs' = docs
          /\ qpc' = IF docs = << >> THEN "closed" ELSE "check"
    /\ UNCHANGED <<qfilter, delivered, cancelled, cnt>>
    /\ UNCHANGED svars

\* the select at the head of the loop: return (the deferred close runs)
\* when ctx.Done() is ready, go on otherwise
ProducerCheck ==
    /\ qpc = "check"
    /\ qpc' = IF cancelled THEN "closed" ELSE "send"
    /\ UNCHANGED <<qfilter, qdocs, delivered, cancelled, cnt>>
    /\ UNCHANGED svars

\* the producer reaches the select around the send with the event built.
\* The case `eventChan <- event` is ready when the consumer is already
\* waiting to receive; Go's select takes any one of the ready cases, so this
\* case can be taken when ctx.Done() is ready too.  A producer that waits in
\* the select is woken by what happens first, so it sends only while the
\* context is not cancelled
ProducerSend ==
    /\ qpc = "send" \/ (qpc = "parked" /\ ~cancelled)
    /\ delivered' = Append(delivered, DocToEvent(Head(qdocs)))
    /\ qdocs' = Tail(qdocs)
    /\ qpc' = IF Tail(qdocs) = << >> THEN "closed" ELSE "check"
    /\ UNCHANGED <<qfilter, cancelled, cnt>>
    /\ UNCHANGED svars

\* a slip: the send is a plain `eventChan <- event`, which does not watch
\* ctx.Done()
ProducerCancelledNever ==
    /\ qpc \in {"send", "parked"}
    /\ cancelled /\ ~cancelled
    /\ qpc' = "closed"
    /\ UNCHANGED <<qfilter, qdocs, delivered, cancelled, cnt>>
    /\ UNCHANGED svars

\* the select around the send, the case `<-ctx.Done()`: return
ProducerCancelled ==
    /\ qpc \in {"send", "parked"}
    /\ cancelled
    /\ qpc' = "closed"
    /\ UNCHANGED <<qfilter, qdocs, delivered, cancelled, cnt>>
    /\ UNCHANGED svars

\* no case of the select is ready: the producer waits in it
ProducerPark ==
    /\ qpc = "send"
    /\ ~cancelled
    /\ qpc' = "parked"
    /\ UNCHANGED <<qfilter, qdocs, delivered, cancelled, cnt>>
    /\ UNCHANGED svars

\* the caller cancels the context of the query in flight
Cancel ==
    /\ qpc \in {"query", "check", "send", "parked"}
    /\ ~cancelled
    /\ cancelled' = TRUE
    /\ UNCHANGED <<qfilter, qpc, qdocs, delivered, cnt>>
    /\ UNCHANGED svars

\* CountEvents(ctx, filter) with the filter of the query that ended
Count ==
    /\ qpc = "closed"
    /\ cnt = -1
    /\ cnt' = CountEvents(store, qfilter)
    /\ UNCHANGED <<qfilter, qpc, qdocs, delivered, cancelled>>
    /\ UNCHANGED svars

\* the store is filled by saves that succeed, then queried and counted
NextQuery ==
    \/ \E e \in QueryInputs : qpc = "idle" /\ SaveEvent(e, MaxQuerySaves, 0)
    \/ \E f \in Filters : QueryEvents(f)
    \/ ProducerQuery
    \/ ProducerCheck
    \/ ProducerSend
    \/ ProducerCancelled
    \/ ProducerPark
    \/ Cancel
    \/ Count

SpecQuery == Init /\ [][NextQuery]_vars

\* a step of the producer goroutine that needs nobody else: the store scan,
\* the select at the head of the loop, leaving the point before the send
\* (sending, waiting or returning), and returning from the wait once
\* ctx.Done() is ready
ProducerStep ==
    \/ ProducerQuery
    \/ ProducerCheck
    \/ qpc = "send" /\ (ProducerSend \/ ProducerPark \/ ProducerCancelled)
    \/ ProducerCancelled

\* what a waiting producer depends on: the consumer receives, or the
\* context of the query is cancelled
ConsumerOrCancel ==
    \/ qpc = "parked" /\ ProducerSend
    \/ Cancel

\* the queries of SpecQuery when the store scan returns, the goroutine is
\* scheduled, and the consumer keeps receiving or the context is cancelled
SpecQueryLive ==
    /\ Init /\ [][NextQuery]_vars
    /\ WF_vars(ProducerStep)
    /\ WF_vars(ConsumerOrCancel)

\* ------------------------------------------- IsValidSubspaceID on its own
\* the hex digits of the valid id of TestIsValidSubspaceID, one period
HexPeriod == <<"1", "2", "3", "4", "5", "6", "7", "8", "9", "0",
               "a", "b", "c", "d", "e", "f">>

\* the first n characters of the period repeated
HexBody(n) == [i \in 1..n |-> HexPeriod[((i - 1) % 16) + 1]]

\* what a candidate starts with: the prefix, its upper-case form, nothing,
\* the prefix reversed, half of it
CandidatePrefixes == {<<"0", "x">>, <<"0", "X">>, << >>, <<"x", "0">>, <<"0">>}

\* lengths of what follows: that of "0x123", and those around 64
CandidateBodyLens == {3, MaxBodyLen - 2, MaxBodyLen - 1, MaxBodyLen}

\* characters put in place of one character of the body: the ends of the
\* three ranges of the loop, characters outside them, "x" and a blank
CandidateChars == {"0", "9", "a", "f", "A", "F", "/", ":", "_", "g", "@", "G",
                   "x", " "}

\* body with the character at position p replaced by c; p = 0 replaces none
WithChar(body, p, c) == [i \in 1..Len(body) |-> IF i = p THEN c ELSE body[i]]

\* the strings IsValidSubspaceID is called with
CandidateIDs ==
    UNION {{pfx \o WithChar(HexBody(n), p, c) :
               pfx \in CandidatePrefixes, p \in {0, 1, 2, n},
               c \in CandidateChars} : n \in CandidateBodyLens}

InitValidate ==
    /\ InitAdapter
    /\ candidate \in CandidateIDs
    /\ verdict = "none"

\* one call IsValidSubspaceID(candidate)
Validate ==
    /\ verdict = "none"
    /\ verdict' = IF IsValidSubspaceID(candidate) THEN "true" ELSE "false"
    /\ UNCHANGED candidate
    /\ UNCHANGED <<store, pc, ev, causality, stats, inviterStats, perr, terr,
                   aerr, ierr, ret, started, failures, pre, tlog, alog,
                   op, qfilter, qpc, qdocs, delivered, cancelled, cnt, call,
                   handle>>

NextValidate == Validate

SpecValidate == InitValidate /\ [][NextValidate]_vars

\* -------------------------------------- creation events and their ops tag
\* most pairs of an ops tag of the inputs
MaxPairs == 2

\* the pairs the ops tags are made of: well-formed ones, two of them with the
\* same name, two with the same key id, one with an empty name, and
\* malformed ones: no "=", two "=", an id that is not a number, is empty,
\* is signed, or does not fit 32 bits
OpsPairs ==
    {<<"a", "=", "2">>, <<"a", "=", "3">>, <<"b", "=", "7">>, <<"e", "=", "0", "7">>,
     <<"=", "5">>, <<"x">>, <<"a", "=", "1", "=", "2">>, <<"c", "=", "z">>,
     <<"d", "=">>, <<"f", "=", "-", "1">>,
     <<"k", "=", "9", "9", "9", "9", "9", "9", "9", "9", "9", "9", "9">>}

\* the ops tag values of at most n pairs
RECURSIVE OpsValuesUpTo(_)
OpsValuesUpTo(n) ==
    IF n = 1 THEN OpsPairs
    ELSE OpsValuesUpTo(n - 1)
            \cup {v \o <<",">> \o p : v \in OpsValuesUpTo(n - 1), p \in OpsPairs}

OpsValues == OpsValuesUpTo(MaxPairs)

\* the creation event of Sub1 whose ops tag is opsValue
CreationWith(opsValue) ==
    Event(<<"c", "1">>, UserA, 100, KindSubspaceCreate,
          <<<<TagSid, Sub1>>, <<TagOps, opsValue>>>>)

InitOps ==
    /\ InitAdapter
    /\ candidate \in OpsValues
    /\ verdict = "none"

\* one call UpdateFromEvent for the creation event with ops tag candidate
CreateSubspace ==
    /\ op = "none"
    /\ \E o \in UpdateFromEventRun(store, CreationWith(candidate), {}) :
          store' = o.db
    /\ op' = "create"
    /\ UNCHANGED <<pc, ev, causality, stats, inviterStats, perr, terr, aerr, ierr,
                   ret, started, failures, pre, tlog, alog,
                   qfilter, qpc, qdocs, delivered, cancelled, cnt,
                   candidate, verdict, call, handle>>

NextOps == CreateSubspace

SpecOps == InitOps /\ [][NextOps]_vars

\* ------------------------------------------ the process-wide store handle
\* most calls on the handle in one behaviour
MaxHandleCalls == 5

\* database names Init is called with
HandleNames == {<<"d", "b", "1">>, <<"d", "b", "2">>}

\* how the function handed to initOnce.Do ends when it runs: at one of the
\* returns before orbitDB is assigned, at the return after orbitDB.Docs
\* failed, or at its end
InitOutcomes == {"fail_early", "fail_docs", "ok"}

\* every variable but call and handle
hvars == <<store, pc, ev, causality, stats, inviterStats, perr, terr, aerr, ierr,
           ret, started, failures, pre, tlog, alog,
           op, qfilter, qpc, qdocs, delivered, cancelled, cnt, candidate, verdict>>

\* the package variables after the function of initOnce.Do ran on h
InitOnceDo(h, outcome) ==
    [h EXCEPT !.initOnce = TRUE,
              !.orbitDB = IF outcome \in {"fail_docs", "ok"} THEN "open" ELSE @,
              !.documentDB = IF outcome = "ok" THEN "open" ELSE @,
              !.initialized = IF outcome = "ok" THEN TRUE ELSE @]

\* Init(name, orbitdir): dbName is assigned, initOnce.Do runs its function
\* when it has not run before, and initErr, nil unless the function set it,
\* is returned
CallInit(name, outcome) ==
    /\ handle.calls < MaxHandleCalls
    /\ LET h0 == [handle EXCEPT !.dbName = name, !.calls = @ + 1]
           h1 == IF handle.initOnce THEN h0 ELSE InitOnceDo(h0, outcome)
           initErr == IF ~handle.initOnce /\ outcome # "ok" THEN "error" ELSE "nil"
       IN  /\ handle' = [h1 EXCEPT !.promised = IF initErr = "nil" THEN TRUE ELSE @]
           /\ call' = [acc |-> "Init", err |-> initErr]
    /\ UNCHANGED hvars

\* GetStore()
CallGetStore ==
    /\ handle.calls < MaxHandleCalls
    /\ handle' = [handle EXCEPT !.calls = @ + 1]
    /\ call' = [acc |-> "GetStore",
                err |-> IF ~handle.initialized \/ handle.documentDB = "nil"
                        THEN "error" ELSE "nil"]
    /\ UNCHANGED hvars

\* Close(): ok is the outcome of ipfsNode.Close() when it is called
CallClose(ok) ==
    /\ handle.calls < MaxHandleCalls
    /\ LET h0 == [handle EXCEPT
                     !.calls = @ + 1,
                     !.documentDB = IF @ # "nil" THEN "closed" ELSE @,
                     !.orbitDB = IF @ # "nil" THEN "closed" ELSE @]
       IN  IF handle.ipfsNode # "nil" /\ ~ok
           THEN /\ handle' = h0
                /\ call' = [acc |-> "Close", err |-> "error"]
           ELSE /\ handle' = [h0 EXCEPT
                                 !.ipfsNode = IF @ # "nil" THEN "closed" ELSE @,
                                 !.initialized = FALSE, !.promised = FALSE]
                /\ call' = [acc |-> "Close", err |-> "nil"]
    /\ UNCHANGED hvars

NextHandle ==
    \/ \E name \in HandleNames, outcome \in InitOutcomes : CallInit(name, outcome)
    \/ CallGetStore
    \/ \E ok \in BOOLEAN : CallClose(ok)

SpecHandle == Init /\ [][NextHandle]_vars

\* ------------------------------------------------------ the read accessors
\* Each accessor is given the store, its arguments and ok, which says whether
\* its store call succeeds; it yields the outcomes it can have: the error it
\* returns ("nil", "format", "store", "not_found"), the value it returns and
\* the number of store calls it made.

\* json.Marshal of a stored map with uint32 keys and json.Unmarshal into
\* map[uint32]uint64: the keys pass through their decimal form
DecodeCounters(m) ==
    [k \in {ParseUint(FormatUint(x)) : x \in DOMAIN m} |->
        m[CHOOSE x \in DOMAIN m : ParseUint(FormatUint(x)) = k]]

\* a stored causality document decoded into a SubspaceCausality
DecodeCausality(doc) == [doc EXCEPT !.keys = DecodeCounters(@)]

\* a stored user-stats document decoded into a UserStats
DecodeUserStats(doc) ==
    [doc EXCEPT !.total_stats = DecodeCounters(@),
                !.subspace_stats = [sid \in DOMAIN @ |-> DecodeCounters(@[sid])]]

\* a slip: the id is not validated before the store is read
GetSubspaceCausalityCallUnchecked(db, subspaceID, ok) ==
    IF ~ok THEN {[err |-> "store", val |-> NilDoc, reads |-> 1]}
    ELSE {[err |-> "nil", val |-> GetSubspaceCausality(db, subspaceID), reads |-> 1]}

\* GetSubspaceCausality as its callers see it
GetSubspaceCausalityCall(db, subspaceID, ok) ==
    IF ~IsValidSubspaceID(subspaceID)
    THEN {[err |-> "format", val |-> NilDoc, reads |-> 0]}
    ELSE IF ~ok THEN {[err |-> "store", val |-> NilDoc, reads |-> 1]}
    ELSE {[err |-> "nil", val |-> GetSubspaceCausality(db, subspaceID), reads |-> 1]}

GetCausalityEvents(db, subspaceID, ok) ==
    {IF r.err # "nil" THEN [err |-> r.err, val |-> << >>, reads |-> r.reads]
     ELSE IF IsNil(r.val) THEN [err |-> "nil", val |-> << >>, reads |-> r.reads]
     ELSE [err |-> "nil", val |-> r.val.events, reads |-> r.reads] :
        r \in GetSubspaceCausalityCall(db, subspaceID, ok)}

GetCausalityKey(db, subspaceID, keyID, ok) ==
    {IF r.err # "nil" THEN [err |-> r.err, val |-> 0, reads |-> r.reads]
     ELSE IF IsNil(r.val) THEN [err |-> "not_found", val |-> 0, reads |-> r.reads]
     ELSE IF keyID \notin DOMAIN r.val.keys
          THEN [err |-> "nil", val |-> 0, reads |-> r.reads]
     ELSE [err |-> "nil", val |-> r.val.keys[keyID], reads |-> r.reads] :
        r \in GetSubspaceCausalityCall(db, subspaceID, ok)}

GetAllCausalityKeys(db, subspaceID, ok) ==
    {IF r.err # "nil" THEN [err |-> r.err, val |-> EmptyMap, reads |-> r.reads]
     ELSE IF IsNil(r.val) THEN [err |-> "nil", val |-> EmptyMap, reads |-> r.reads]
     ELSE [err |-> "nil", val |-> r.val.keys, reads |-> r.reads] :
        r \in GetSubspaceCausalityCall(db, subspaceID, ok)}

\* GetUserStats as its callers see it
GetUserStatsCall(db, userID, ok) ==
    IF ~ok THEN {[err |-> "store", val |-> NilDoc, reads |-> 1]}
    ELSE {[err |-> "nil", val |-> GetUserStats(db, userID), reads |-> 1]}

\* the predicates QuerySubspaces is called with: nil, a key is registered,
\* at least two events are listed
SubspaceFilters == {"nil", "has_keys", "two_events"}

SubspaceFilterHolds(filter, c) ==
    CASE filter = "has_keys" -> DOMAIN c.keys # {}
      [] filter = "two_events" -> Len(c.events) >= 2
      [] OTHER -> TRUE

\* the predicates QueryUserStats is called with: nil, the user has voted,
\* the user has created a subspace
UserFilters == {"nil", "voted", "creator"}

UserFilterHolds(filter, u) ==
    CASE filter = "voted" -> ~u.vote_stats.nil
      [] filter = "creator" -> Len(u.created_subspaces) > 0
      [] OTHER -> TRUE

\* the documents db.Query has handed to the callback when it returns: all of
\* them when it succeeds, any of them when it fails
Visited(db, ok) == IF ok THEN {Documents(db)} ELSE SUBSET Documents(db)

\* a query collects its results in the callback and returns them with a nil
\* error, whatever db.Query returned
Collected(S) == {[err |-> "nil", val |-> r, reads |-> 1] : r \in Orderings(S)}

\* a slip: the discriminator is not tested
QuerySubspacesAnyType(db, filter, ok) ==
    UNION {Collected({doc \in seen : HasField(doc, "id")}) : seen \in Visited(db, ok)}

QuerySubspaces(db, filter, ok) ==
    UNION {Collected({DecodeCausality(doc) :
                         doc \in {d \in seen :
                                     /\ d.doc_type = DocTypeCausality
                                     /\ SubspaceFilterHolds(filter, DecodeCausality(d))}}) :
              seen \in Visited(db, ok)}

QueryUserStats(db, filter, ok) ==
    UNION {Collected({DecodeUserStats(doc) :
                         doc \in {d \in seen :
                                     /\ d.doc_type = DocTypeUserStats
                                     /\ UserFilterHolds(filter, DecodeUserStats(d))}}) :
              seen \in Visited(db, ok)}

\* a slip: the creators of the subspace are returned too
QueryUsersBySubspaceOrCreated(db, subspaceID, ok) ==
    UNION {Collected({DecodeUserStats(doc) :
                         doc \in {d \in seen :
                                     /\ d.doc_type = DocTypeUserStats
                                     /\ \/ containsString(d.joined_subspaces, subspaceID)
                                        \/ containsString(d.created_subspaces, subspaceID)}}) :
              seen \in Visited(db, ok)}

QueryUsersBySubspace(db, subspaceID, ok) ==
    UNION {Collected({DecodeUserStats(doc) :
                         doc \in {d \in seen :
                                     /\ d.doc_type = DocTypeUserStats
                                     /\ containsString(d.joined_subspaces, subspaceID)}}) :
              seen \in Visited(db, ok)}

\* CountEvents counts in the callback and returns the count with a nil error
CountEventsCall(db, filter, ok) ==
    {[err |-> "nil", val |-> Cardinality({doc \in seen : CountMatches(doc, filter)}),
      reads |-> 1] : seen \in Visited(db, ok)}

\* QueryEvents consumed to the end without cancellation: the error of
\* db.Query is dropped, the documents it returned are sent as events and the
\* channel comes with a nil error
QueryEventsCall(db, filter, ok) ==
    UNION {Collected({DocToEvent(doc) : doc \in {d \in seen : QueryMatches(d, filter)}}) :
              seen \in Visited(db, ok)}

\* a filter whose Since or Until pointers are set: bounds is a record with
\* the fields since, until or both; a nil pointer is an absent field
WithBounds(filter, bounds) ==
    [x \in (DOMAIN filter) \cup (DOMAIN bounds) |->
        IF x \in DOMAIN bounds THEN bounds[x] ELSE filter[x]]

TagParent == <<"p", "a", "r", "e", "n", "t">>

DefaultLimit == 100

\* the list under field of the decoded request body, empty when absent
ParamList(queryParams, field) ==
    IF HasField(queryParams, field) THEN queryParams[field] ELSE << >>

\* the nostr.Filter the QueryEvents handler builds from the request body
HandlerFilter(queryParams) ==
    LET tagFields == [n \in {TagSid, TagParent} |-> IF n = TagSid THEN "sid" ELSE "parent"]
        tags == [n \in {t \in {TagSid, TagParent} :
                            Len(ParamList(queryParams, tagFields[t])) > 0} |->
                    queryParams[tagFields[n]]]
        bounds == [x \in (DOMAIN queryParams) \cap {"since", "until"} |-> queryParams[x]]
    IN  WithBounds(Filter(ParamList(queryParams, "ids"), ParamList(queryParams, "authors"),
                          ParamList(queryParams, "kinds"), tags),
                   bounds)

\* filter.Limit after the handler settled it: urlLimit is the limit of the
\* URL, 0 when the URL has none
HandlerLimit(queryParams, urlLimit) ==
    LET limit == IF urlLimit > 0 THEN urlLimit ELSE DefaultLimit
        filterLimit == IF HasField(queryParams, "limit") THEN queryParams.limit ELSE 0
    IN  IF filterLimit = 0 \/ filterLimit > limit THEN limit ELSE filterLimit

\* the handler's loop: events are appended until count reaches the limit
TakeUpTo(events, limit) ==
    IF limit <= 0 THEN << >>
    ELSE IF limit >= Len(events) THEN events ELSE SubSeq(events, 1, limit)

\* the QueryEvents handler: the events of its response
HandlersQueryEvents(db, queryParams, urlLimit, ok) ==
    {IF o.err # "nil"
     THEN [err |-> "http500", val |-> << >>, reads |-> o.reads]
     ELSE [err |-> "nil",
           val |-> TakeUpTo(o.val, HandlerLimit(queryParams, urlLimit)),
           reads |-> o.reads] :
        o \in QueryEventsCall(db, HandlerFilter(queryParams), ok)}

\* request bodies and URL limits of the handler
Requests ==
    {[since |-> 103], [until |-> 103], [since |-> 101, until |-> 104, limit |-> 1],
     [sid |-> <<Sub1>>, parent |-> << >>], [ids |-> <<EvVoteYes.id>>, limit |-> 5]}

UrlLimits == {0, 1}

\* ids, key ids and filters the accessors are called with
ReadIDs == {Sub1, Sub2, BadSub, UserA, UserB}

ReadKeys == {2, 7, KindVote}

ReadFilters ==
    {NoFilter, Filter(<< >>, <<UserA>>, << >>, EmptyMap),
     Filter(<<EvVoteYes.id>>, << >>, << >>, EmptyMap),
     Filter(<<EvSigned.id>>, << >>, << >>, EmptyMap),
     WithBounds(NoFilter, [since |-> 103]),
     WithBounds(NoFilter, [until |-> 103]),
     WithBounds(NoFilter, [since |-> 101, until |-> 104])}

\* every variable but call
nvars == <<store, pc, ev, causality, stats, inviterStats, perr, terr, aerr, ierr,
           ret, started, failures, pre, tlog, alog,
           op, qfilter, qpc, qdocs, delivered, cancelled, cnt, candidate, verdict,
           handle>>

\* accessor acc, called with arg (and key or filter, 0 when it takes none)
\* while the store call has outcome ok, returned o
Called(acc, arg, extra, ok, o) ==
    /\ call' = [acc |-> acc, arg |-> arg, extra |-> extra, ok |-> ok,
                err |-> o.err, val |-> o.val, reads |-> o.reads]
    /\ UNCHANGED nvars

CallGetSubspaceCausality(id, ok) ==
    /\ call = NoCall
    /\ \E o \in GetSubspaceCausalityCall(store, id, ok) :
          Called("get", id, 0, ok, o)

CallGetCausalityEvents(id, ok) ==
    /\ call = NoCall
    /\ \E o \in GetCausalityEvents(store, id, ok) :
          Called("events", id, 0, ok, o)

CallGetCausalityKey(id, keyID, ok) ==
    /\ call = NoCall
    /\ \E o \in GetCausalityKey(store, id, keyID, ok) :
          Called("key", id, keyID, ok, o)

CallGetAllCausalityKeys(id, ok) ==
    /\ call = NoCall
    /\ \E o \in GetAllCausalityKeys(store, id, ok) :
          Called("allKeys", id, 0, ok, o)

CallQuerySubspaces(filter, ok) ==
    /\ call = NoCall
    /\ \E o \in QuerySubspaces(store, filter, ok) :
          Called("subspaces", EmptyStr, filter, ok, o)

CallGetUserStats(id, ok) ==
    /\ call = NoCall
    /\ \E o \in GetUserStatsCall(store, id, ok) :
          Called("userGet", id, 0, ok, o)

CallQueryUserStats(filter, ok) ==
    /\ call = NoCall
    /\ \E o \in QueryUserStats(store, filter, ok) :
          Called("users", EmptyStr, filter, ok, o)

CallQueryUsersBySubspace(id, ok) ==
    /\ call = NoCall
    /\ \E o \in QueryUsersBySubspace(store, id, ok) :
          Called("usersBySubspace", id, 0, ok, o)

CallCountEvents(filter, ok) ==
    /\ call = NoCall
    /\ \E o \in CountEventsCall(store, filter, ok) :
          Called("count", EmptyStr, filter, ok, o)

CallQueryEvents(filter, ok) ==
    /\ call = NoCall
    /\ \E o \in QueryEventsCall(store, filter, ok) :
          Called("query", EmptyStr, filter, ok, o)

CallHandlersQueryEvents(queryParams, urlLimit, ok) ==
    /\ call = NoCall
    /\ \E o \in HandlersQueryEvents(store, queryParams, urlLimit, ok) :
          Called("handler", urlLimit, queryParams, ok, o)

\* events are saved one at a time, then an accessor is called; a behaviour
\* follows one call, since no accessor writes to the store
NextRead ==
    \/ \E e \in ReadInputs : call = NoCall /\ SaveEvent(e, MaxReadSaves, 0)
    \/ \E id \in ReadIDs, ok \in BOOLEAN : CallGetSubspaceCausality(id, ok)
    \/ \E id \in ReadIDs, ok \in BOOLEAN : CallGetCausalityEvents(id, ok)
    \/ \E id \in ReadIDs, k \in ReadKeys, ok \in BOOLEAN : CallGetCausalityKey(id, k, ok)
    \/ \E id \in ReadIDs, ok \in BOOLEAN : CallGetAllCausalityKeys(id, ok)
    \/ \E f \in SubspaceFilters, ok \in BOOLEAN : CallQuerySubspaces(f, ok)
    \/ \E id \in ReadIDs, ok \in BOOLEAN : CallGetUserStats(id, ok)
    \/ \E f \in UserFilters, ok \in BOOLEAN : CallQueryUserStats(f, ok)
    \/ \E id \in ReadIDs, ok \in BOOLEAN : CallQueryUsersBySubspace(id, ok)
    \/ \E f \in ReadFilters, ok \in BOOLEAN : CallCountEvents(f, ok)
    \/ \E f \in ReadFilters, ok \in BOOLEAN : CallQueryEvents(f, ok)
    \/ \E q \in Requests, l \in UrlLimits, ok \in BOOLEAN : CallHandlersQueryEvents(q, l, ok)

SpecRead == Init /\ [][NextRead]_vars

\* ------------------------------------------------------- reading the store
CausalityKeys(db, sid) ==
    IF IsNil(GetSubspaceCausality(db, sid)) THEN EmptyMap
    ELSE GetSubspaceCausality(db, sid).keys

CausalityEvents(db, sid) ==
    IF IsNil(GetSubspaceCausality(db, sid)) THEN << >>
    ELSE GetSubspaceCausality(db, sid).events

VoteOf(db, u) ==
    IF IsNil(GetUserStats(db, u)) THEN NilVoteStats ELSE GetUserStats(db, u).vote_stats

InviteOf(db, u) ==
    IF IsNil(GetUserStats(db, u)) THEN NilInviteStats ELSE GetUserStats(db, u).invite_stats

TotalOf(db, u, kind) ==
    IF IsNil(GetUserStats(db, u)) THEN 0 ELSE MapGet(GetUserStats(db, u).total_stats, kind)

SubspaceStatOf(db, u, sid, kind) ==
    IF IsNil(GetUserStats(db, u)) THEN 0
    ELSE IF sid \notin DOMAIN GetUserStats(db, u).subspace_stats THEN 0
    ELSE MapGet(GetUserStats(db, u).subspace_stats[sid], kind)

SubspaceVoteOf(db, u, sid) ==
    IF sid \in DOMAIN VoteOf(db, u).subspace_votes
    THEN VoteOf(db, u).subspace_votes[sid] ELSE NewSubspaceVoteStats

\* sum of log over the events of S
RECURSIVE SumLog(_, _)
SumLog(log, S) ==
    IF S = {} THEN 0
    ELSE LET e == CHOOSE x \in S : TRUE IN log[e.id] + SumLog(log, S \ {e})

Kinds == {e.kind : e \in Events}

\* the request of Spec has just had its tracker document written
TrackerWrote == pc[1] = "t_put" /\ terr'[1] = "nil"

\* ------------------------------------------------------------------- claims

\* C1: for every subspace document and every registered key, the stored
\* counter never decreases across UpdateFromEvent calls executed one at a
\* time, whatever the kind of the event.
C1_CountersNeverDecrease ==
    [][\A sid \in Subspaces : \A k \in DOMAIN CausalityKeys(store, sid) :
          k \in DOMAIN CausalityKeys(store', sid)
             => CausalityKeys(store', sid)[k] >= CausalityKeys(store, sid)[k]]_vars

\* C2: a creation event registers a parsed key with counter 0 only if the key
\* is not registered yet; a key that already has a counter keeps its value.
C2_CreationKeepsCounters ==
    [][(TrackerWrote /\ ev[1].kind = KindSubspaceCreate)
          => \A k \in DOMAIN CausalityKeys(store, TrackedSubspace(ev[1])) :
                /\ k \in DOMAIN CausalityKeys(store', TrackedSubspace(ev[1]))
                /\ CausalityKeys(store', TrackedSubspace(ev[1]))[k]
                      = CausalityKeys(store, TrackedSubspace(ev[1]))[k]]_vars

\* C3 as stated: a non-creation event whose kind is a registered key k of its
\* subspace raises k's counter by exactly 1 and leaves the other keys alone.
C3_KindKeyIncrements ==
    [][(/\ TrackerWrote
        /\ ev[1].kind # KindSubspaceCreate
        /\ ev[1].kind \in DOMAIN CausalityKeys(store, TrackedSubspace(ev[1])))
          => CausalityKeys(store', TrackedSubspace(ev[1]))
                = IncrKey(CausalityKeys(store, TrackedSubspace(ev[1])), ev[1].kind)]_vars

\* C3 amended: a non-creation event that carries a non-empty op tag and whose
\* kind is a registered key k of its subspace raises k's counter by exactly 1
\* and leaves every other registered key's counter unchanged.
C3_KindKeyIncrementsWithOp ==
    [][(/\ TrackerWrote
        /\ ev[1].kind # KindSubspaceCreate
        /\ TagValue(ev[1].tags, TagOp) # EmptyStr
        /\ ev[1].kind \in DOMAIN CausalityKeys(store, TrackedSubspace(ev[1])))
          => \A k \in DOMAIN CausalityKeys(store, TrackedSubspace(ev[1])) :
                /\ k \in DOMAIN CausalityKeys(store', TrackedSubspace(ev[1]))
                /\ CausalityKeys(store', TrackedSubspace(ev[1]))[k]
                      = CausalityKeys(store, TrackedSubspace(ev[1]))[k]
                           + (IF k = ev[1].kind THEN 1 ELSE 0)]_vars

\* the spec's example: keys 2 and 30302 registered, then one vote of kind 30302
C3_Witness ==
    /\ pc[1] = "done" /\ ev[1] = EvVoteYes /\ terr[1] = "nil"
    /\ tlog[EvCreate.id] = 1 /\ tlog[EvVoteYes.id] = 1
    /\ CausalityKeys(store, Sub1) = (2 :> 0 @@ KindVote :> 1)

\* C4: under any interleaving of UpdateFromEvent calls, re-delivery included,
\* the events list of every stored subspace document holds each id at most once.
C4_NoDuplicateEvents ==
    \A sid \in Subspaces :
       \A i, j \in 1..Len(CausalityEvents(store, sid)) :
          i # j => CausalityEvents(store, sid)[i] # CausalityEvents(store, sid)[j]

\* the same event id written twice by the tracker and listed once
C4_Witness ==
    /\ tlog[EvVoteYes.id] >= 2
    /\ Len(SelectSeq(CausalityEvents(store, Sub1), LAMBDA id : id = EvVoteYes.id)) = 1

\* C5: once a key is registered in a subspace's stored document it is
\* registered in every later stored state, for any interleaving of
\* UpdateFromEvent calls against the last-writer-wins store.
C5_KeysNeverRemoved ==
    [][\A sid \in Subspaces : \A k \in DOMAIN CausalityKeys(store, sid) :
          k \in DOMAIN CausalityKeys(store', sid)]_vars

\* C6: with interleaved read and write steps two updates can both succeed
\* while the counter rises by 1 only; the stored counter is never above the
\* number of updates that wrote it (an increment can be lost, never gained):
\* a user's total[kind] is at most the number of successful aggregator
\* writes for events of that author and kind, and a key's counter is at most
\* the number of successful tracker writes of non-creation events with an op
\* tag in that subspace.
C6_CountersNeverAhead ==
    /\ \A u \in Users, kind \in Kinds :
          TotalOf(store, u, kind)
             <= SumLog(alog, {e \in Events : e.pubkey = u /\ e.kind = kind})
    /\ \A sid \in Subspaces : \A k \in DOMAIN CausalityKeys(store, sid) :
          CausalityKeys(store, sid)[k]
             <= SumLog(tlog, {e \in Events : /\ TrackedSubspace(e) = sid
                                             /\ e.kind # KindSubspaceCreate
                                             /\ TagValue(e.tags, TagOp) # EmptyStr})

\* both requests saved the same vote, both read counter 0 and wrote 1, both
\* returned success, and the stored counters are 1 in both indexes
C6_LostUpdate ==
    /\ pc[1] = "done" /\ pc[2] = "done"
    /\ ev[1] = EvVoteYes /\ ev[2] = EvVoteYes
    /\ ret[1] = "nil" /\ ret[2] = "nil"
    /\ terr[1] = "nil" /\ terr[2] = "nil" /\ aerr[1] = "nil" /\ aerr[2] = "nil"
    /\ MapGet(causality[1].keys, KindVote) = 1 /\ MapGet(causality[2].keys, KindVote) = 1
    /\ MapGet(CausalityKeys(store, Sub1), KindVote) = 1
    /\ MapGet(stats[1].total_stats, KindVote) = 1 /\ MapGet(stats[2].total_stats, KindVote) = 1
    /\ TotalOf(store, UserA, KindVote) = 1
    /\ tlog[EvVoteYes.id] = 2 /\ alog[EvVoteYes.id] = 2

\* C7: once the primary write of the raw event succeeded, the raw event
\* document stays stored and SaveEvent returns success, whether or not
\* UpdateFromEvent or UpdateUserStatsFromEvent fail afterwards.
C7_SaveSurvivesDerivedFailures ==
    perr[1] = "nil"
       => /\ Get(store, ev[1].id) = <<EventDoc(ev[1])>>
          /\ pc[1] = "done" => ret[1] = "nil"

\* SaveEvent has returned after both derived updates failed
C7_Witness ==
    /\ pc[1] = "done" /\ perr[1] = "nil" /\ terr[1] = "store" /\ aerr[1] = "store"
    /\ ret[1] = "nil"

\* C8: if the primary write fails, SaveEvent returns that error, neither
\* derived update is invoked and every stored document is as it was.
C8_FailedPutStopsSave ==
    perr[1] = "store"
       => /\ pc[1] = "done" /\ ret[1] = "store"
          /\ terr[1] = "none" /\ aerr[1] = "none" /\ ierr[1] = "none"
          /\ store = pre[1]

\* the primary write failed on a store that holds derived documents
C8_Witness ==
    /\ pc[1] = "done" /\ perr[1] = "store" /\ ret[1] = "store"
    /\ ~IsNil(GetSubspaceCausality(store, Sub1))
    /\ ~IsNil(GetUserStats(store, UserA))
    /\ TrackedSubspace(ev[1]) = Sub1

\* C9: an invite acceptance by B naming inviter A # B in subspace S raises A's
\* totalInvited and subspaceInvited[S] by 1 and appends exactly the record
\* {invitee B, subspace S} to A's list, when the inviter update succeeds;
\* B's own document gains no invite statistics.
C9_InviterCredited ==
    LET e == ev[1]
        A == InviterOf(e)
        B == e.pubkey
        S == TagValue(e.tags, TagSid)
        old == InviteOf(pre[1], A)
        new == InviteOf(store, A)
    IN  (pc[1] = "done" /\ A # EmptyStr /\ A # B)
           => /\ InviteOf(store, B) = InviteOf(pre[1], B)
              /\ ierr[1] = "nil"
                 => /\ ~new.nil
                    /\ new.total_invited = old.total_invited + 1
                    /\ MapGet(new.subspace_invited, S) = MapGet(old.subspace_invited, S) + 1
                    /\ new.invited_users[S]
                          = Append(IF S \in DOMAIN old.invited_users
                                   THEN old.invited_users[S] ELSE << >>,
                                   [user_id |-> B, subspace_id |-> S])
                    /\ \A T \in DOMAIN old.invited_users :
                          T # S => new.invited_users[T] = old.invited_users[T]

\* the second acceptance by UserB credited to UserA
C9_Witness ==
    /\ pc[1] = "done" /\ ev[1] = EvInvite /\ ierr[1] = "nil" /\ aerr[1] = "nil"
    /\ InviteOf(store, UserA).total_invited = 2
    /\ Len(InviteOf(store, UserA).invited_users[Sub1]) = 2
    /\ InviteOf(store, UserB).nil

\* C10: after sequentially executed aggregator updates, a user's VoteStats
\* total is the number of its vote events with a subspace tag whose update
\* was written, yes / no the numbers of those whose vote tag is exactly
\* "yes" / "no", and the triple of subspace S the same counts within S.
VoteValues == {TagValue(e.tags, TagVote) : e \in Events}

\* the vote events of u with a subspace tag in sids and a vote tag in values,
\* for every u, sids and values the claim reads
VoteEventsOf ==
    [u \in Users |->
        [sids \in {Subspaces} \cup {{S} : S \in Subspaces} |->
            [values \in {VoteValues, {VoteYes}, {VoteNo}} |->
                {e \in Events : /\ e.pubkey = u /\ e.kind = KindVote
                                /\ TagValue(e.tags, TagSid) \in sids
                                /\ TagValue(e.tags, TagVote) \in values}]]]

VotesOf(u, sids, values) == SumLog(alog, VoteEventsOf[u][sids][values])

C10_VoteStatsCount ==
    \A u \in Users :
       /\ VoteOf(store, u).total_votes = VotesOf(u, Subspaces, VoteValues)
       /\ VoteOf(store, u).yes_votes = VotesOf(u, Subspaces, {VoteYes})
       /\ VoteOf(store, u).no_votes = VotesOf(u, Subspaces, {VoteNo})
       /\ \A S \in Subspaces :
             /\ SubspaceVoteOf(store, u, S).total_votes = VotesOf(u, {S}, VoteValues)
             /\ SubspaceVoteOf(store, u, S).yes_votes = VotesOf(u, {S}, {VoteYes})
             /\ SubspaceVoteOf(store, u, S).no_votes = VotesOf(u, {S}, {VoteNo})

\* yes, yes, no in Sub1: {3, 2, 1} at both levels
C10_Witness ==
    /\ alog[EvVoteYes.id] = 2 /\ alog[EvVoteNo.id] = 1
    /\ VoteOf(store, UserA) =
          [nil |-> FALSE, total_votes |-> 3, yes_votes |-> 2, no_votes |-> 1,
           subspace_votes |->
              (Sub1 :> [total_votes |-> 3, yes_votes |-> 2, no_votes |-> 1])]

\* C11: after sequentially executed aggregator updates, user U's total[k] is
\* the number of successful updates whose event has author U and kind k, and
\* subspaceStats[S][k] the number of those that also carry subspace tag S.
C11_TotalsCount ==
    \A u \in Users : \A k \in Kinds :
       /\ TotalOf(store, u, k)
             = SumLog(alog, {e \in Events : e.pubkey = u /\ e.kind = k})
       /\ \A S \in Subspaces :
             SubspaceStatOf(store, u, S, k)
                = SumLog(alog, {e \in Events : /\ e.pubkey = u /\ e.kind = k
                                                /\ TagValue(e.tags, TagSid) = S})

\* two votes of UserA counted, one of them in Sub1 and one without a subspace
C11_Witness ==
    /\ alog[EvVoteYes.id] = 1 /\ alog[EvPlain.id] = 1
    /\ TotalOf(store, UserA, KindVote) = 2
    /\ SubspaceStatOf(store, UserA, Sub1, KindVote) = 1

\* the events the consumer received
Yielded == {delivered[i] : i \in 1..Len(delivered)}

\* the raw document of e is stored
Stored(e) == Get(store, e.id) = <<EventDoc(e)>>

\* value is one of the listed values, or nothing is listed
DimensionOk(listed, value) ==
    Len(listed) = 0 \/ \E i \in 1..Len(listed) : listed[i] = value

\* e satisfies the ids, authors and kinds of the filter
SatisfiesDimensions(f, e) ==
    /\ DimensionOk(f.ids, e.id)
    /\ DimensionOk(f.authors, e.pubkey)
    /\ DimensionOk(f.kinds, e.kind)

\* C12: every event a query yields is a stored event that satisfies each
\* non-empty dimension (ids, authors, kinds) of the filter, an empty
\* dimension excluding nothing; and a query without tag constraints that
\* was consumed to its end yielded every stored event that satisfies them.
C12_QueryYieldsMatches ==
    /\ \A e \in Yielded :
          e \in Events /\ Stored(e) /\ SatisfiesDimensions(qfilter, e)
    /\ (qpc = "closed" /\ ~cancelled /\ DOMAIN qfilter.tags = {})
          => \A e \in Events :
                (Stored(e) /\ SatisfiesDimensions(qfilter, e)) => e \in Yielded

\* authors=[UserA] and kinds=[KindInvite, 1]: the invite of UserA is yielded,
\* the invite of UserB, which satisfies the kinds only, is not
C12_Witness ==
    /\ qpc = "closed" /\ ~cancelled
    /\ qfilter = Filter(<< >>, <<UserA>>, <<KindInvite, 1>>, EmptyMap)
    /\ Stored(EvSelfInvite) /\ Stored(EvInvite)
    /\ delivered = <<EvSelfInvite>>

\* C13: an event is yielded only if, for every tag name of the filter with a
\* non-empty value list, it has a tag whose name equals that name ignoring
\* letter case and whose value is one of the listed values.
C13_YieldedHaveTags ==
    \A e \in Yielded : \A tagName \in DOMAIN qfilter.tags :
       Len(qfilter.tags[tagName]) > 0
          => \E i \in 1..Len(e.tags) :
                /\ Len(e.tags[i]) >= 2
                /\ EqualFold(e.tags[i][1], tagName)
                /\ \E j \in 1..Len(qfilter.tags[tagName]) :
                      qfilter.tags[tagName][j] = e.tags[i][2]

\* the filter names the tag "SID" with the values Sub2 and Sub1: the vote
\* tagged ["sid", Sub1] is yielded, the vote without a subspace tag is not
C13_Witness ==
    /\ qpc = "closed" /\ ~cancelled
    /\ qfilter = Filter(<< >>, << >>, << >>, [n \in {TagSidUpper} |-> <<Sub2, Sub1>>])
    /\ Stored(EvVoteYes) /\ Stored(EvPlain)
    /\ delivered = <<EvVoteYes>>

\* C14: count(filter) is the number of events query(filter) yields when it is
\* consumed to its end, on the same store.
C14_CountEqualsQuery ==
    (qpc = "closed" /\ ~cancelled /\ cnt # -1) => cnt = Len(delivered)

\* C15: once the cancellation signal of a query has fired, the producer
\* delivers no further event on the channel.
C15_NoDeliveryAfterCancel ==
    [][(cancelled /\ qpc \in {"query", "check", "send", "parked"})
          => delivered' = delivered]_vars

\* C16: DeleteEvent removes only the raw document stored under the event's
\* id: every other document, so every causality and user-stats document, is
\* as it was; the id stays in the subspace's events list and the counters
\* stay.
C16_DeleteKeepsDerived ==
    op = "delete"
       => /\ DOMAIN store \subseteq DOMAIN pre[1]
          /\ \A k \in DOMAIN pre[1] :
                k # ev[1].id => (k \in DOMAIN store /\ store[k] = pre[1][k])
          /\ \A sid \in Subspaces :
                GetSubspaceCausality(store, sid) = GetSubspaceCausality(pre[1], sid)
          /\ \A u \in Users : GetUserStats(store, u) = GetUserStats(pre[1], u)
          /\ ret[1] = "nil" => Get(store, ev[1].id) = << >>

\* the saved vote was deleted: its raw document is gone, its id is still in
\* the events list of Sub1 and the author's counters still count it
C16_Witness ==
    /\ op = "delete" /\ ret[1] = "nil" /\ ev[1] = EvVoteYes
    /\ Get(pre[1], EvVoteYes.id) = <<EventDoc(EvVoteYes)>>
    /\ Get(store, EvVoteYes.id) = << >>
    /\ containsString(CausalityEvents(store, Sub1), EvVoteYes.id)
    /\ TotalOf(store, UserA, KindVote) = 1
    /\ VoteOf(store, UserA).yes_votes = 1

\* what the operation of request 1 returned and left in the store
LastOutcome ==
    [db |-> store, ret |-> ret[1], perr |-> perr[1], terr |-> terr[1],
     aerr |-> aerr[1], ierr |-> ierr[1]]

\* C17: from every store state and for every event, ReplaceEvent has the
\* same result value and the same resulting store (raw event document,
\* causality document, user-stats documents) as SaveEvent, whichever store
\* calls fail, both derived updates being run again: what a save or a
\* replace produced from the store it started on is an outcome of SaveEvent
\* exactly when it is an outcome of ReplaceEvent with the same failing calls.
C17_ReplaceIsSave ==
    op \in {"save", "replace"}
       => \A fails \in FailureSets(MaxRunFailures) :
             (LastOutcome \in SaveEventRun(pre[1], ev[1], fails))
                <=> (LastOutcome \in ReplaceEventRun(pre[1], ev[1], fails))

\* a saved vote was replaced: both derived updates ran a second time
C17_Witness ==
    /\ op = "replace" /\ ev[1] = EvVoteYes /\ ret[1] = "nil"
    /\ terr[1] = "nil" /\ aerr[1] = "nil"
    /\ Stored(EvVoteYes) /\ Get(pre[1], EvVoteYes.id) = <<EventDoc(EvVoteYes)>>
    /\ tlog[EvVoteYes.id] = 2 /\ alog[EvVoteYes.id] = 2
    /\ TotalOf(pre[1], UserA, KindVote) = 1 /\ TotalOf(store, UserA, KindVote) = 2

\* the derived documents the last save or replace had to leave in the store:
\* the subspace document when the tracker returned nil for a valid subspace
\* id, the author's document when the aggregator returned nil, the inviter's
\* document when the inviter update returned nil
DerivedCreated ==
    op \in {"save", "replace"}
       => /\ (terr[1] = "nil" /\ TrackedSubspace(ev[1]) # EmptyStr)
                => ~IsNil(GetSubspaceCausality(store, TrackedSubspace(ev[1])))
          /\ aerr[1] = "nil" => ~IsNil(GetUserStats(store, ev[1].pubkey))
          /\ ierr[1] = "nil" => ~IsNil(GetUserStats(store, InviterOf(ev[1])))

\* C18: a causality document or user-stats document that is in the store is
\* in the store after every save, replace and delete; and an update that
\* succeeds for a valid subspace id or a user id leaves its document in the
\* store, creating it when it was absent.
C18_DerivedNeverRemoved ==
    [][/\ \A sid \in Subspaces :
             ~IsNil(GetSubspaceCausality(store, sid))
                => ~IsNil(GetSubspaceCausality(store', sid))
       /\ \A u \in Users :
             ~IsNil(GetUserStats(store, u)) => ~IsNil(GetUserStats(store', u))
       /\ DerivedCreated']_vars

\* the first event, an invite acceptance, created the document of Sub1 and
\* the documents of the author and of the inviter
C18_Witness ==
    /\ op = "save" /\ ev[1] = EvInvite /\ pre[1] = EmptyMap
    /\ ~IsNil(GetSubspaceCausality(store, Sub1))
    /\ ~IsNil(GetUserStats(store, UserA)) /\ ~IsNil(GetUserStats(store, UserB))

\* value of the subspace tag of e that comes first in its tag list, "" when
\* e has none
FirstSubspaceTag(e) ==
    LET idx == {i \in DOMAIN e.tags :
                   Len(e.tags[i]) >= 2 /\ e.tags[i][1] = TagSid}
    IN  IF idx = {} THEN EmptyStr
        ELSE e.tags[CHOOSE i \in idx : \A j \in idx : i <= j][2]

\* e is an invite acceptance with a subspace tag and an inviter tag naming u
AcceptsInviteOf(e, u) ==
    /\ e.kind = KindInvite
    /\ FirstSubspaceTag(e) # EmptyStr
    /\ \E i \in DOMAIN e.tags :
          Len(e.tags[i]) >= 2 /\ e.tags[i][1] = TagInviterAddr /\ e.tags[i][2] = u

\* C19: the aggregator update of one save or replace writes the author's
\* user-stats document, writes the document of another user only when the
\* event is an invite acceptance with a subspace tag and an inviter tag naming
\* that user, and leaves every other user-stats document as it was; the
\* tracker update changes no causality document other than the one named by
\* the event's first subspace tag.
C19_UpdateFrame ==
    op \in {"save", "replace"}
       => /\ aerr[1] = "nil"
                => Get(store, ev[1].pubkey) # Get(pre[1], ev[1].pubkey)
          /\ \A u \in Users \ {ev[1].pubkey} :
                /\ Get(store, u) # Get(pre[1], u) => AcceptsInviteOf(ev[1], u)
                /\ (AcceptsInviteOf(ev[1], u) /\ ierr[1] = "nil")
                      => Get(store, u) # Get(pre[1], u)
          /\ \A sid \in Subspaces \ {FirstSubspaceTag(ev[1])} :
                Get(store, sid) = Get(pre[1], sid)

\* an event of UserB with the subspace tags Sub2, Sub1 saved after a vote of
\* UserA in Sub1: the documents of Sub2 and UserB are written, those of Sub1
\* and UserA are as before
C19_Witness ==
    /\ op = "save" /\ ev[1] = EvTwoSids
    /\ terr[1] = "nil" /\ aerr[1] = "nil"
    /\ Get(pre[1], Sub1) # << >> /\ Get(store, Sub1) = Get(pre[1], Sub1)
    /\ Get(pre[1], UserA) # << >> /\ Get(store, UserA) = Get(pre[1], UserA)
    /\ Get(pre[1], Sub2) = << >> /\ Get(store, Sub2) # << >>
    /\ Get(pre[1], UserB) = << >> /\ Get(store, UserB) # << >>

\* the characters 0-9, a-f, A-F
HexDigitSet == {"0", "1", "2", "3", "4", "5", "6", "7", "8", "9",
                "a", "b", "c", "d", "e", "f", "A", "B", "C", "D", "E", "F"}

\* id is "0x" followed by exactly 64 hex digits
WellFormedSubspaceID(id) ==
    /\ Len(id) = 66
    /\ id[1] = "0" /\ id[2] = "x"
    /\ \A i \in 3..66 : id[i] \in HexDigitSet

\* the strings the claim names: "0x123", 64 hex digits without the prefix,
\* and the valid id with its last digit replaced by "g"
RejectedExamples ==
    {<<"0", "x", "1", "2", "3">>,
     HexBody(64),
     <<"0", "x">> \o WithChar(HexBody(64), 64, "g")}

\* C20: IsValidSubspaceID returns true if and only if the string has 66
\* characters, starts with "0x" and its other 64 characters are hex digits
\* (0-9, a-f, A-F); it returns false for "0x123", for 64 hex digits without
\* the prefix and for an id with a character that is no hex digit.
C20_ValidIffWellFormed ==
    verdict # "none"
       => /\ (verdict = "true") <=> WellFormedSubspaceID(candidate)
          /\ candidate \in RejectedExamples => verdict = "false"

\* an id with upper-case and lower-case hex digits was accepted
C20_Witness ==
    /\ verdict = "true"
    /\ \E i, j \in 3..66 : candidate[i] = "F" /\ candidate[j] = "f"

\* the accessors of the tracker that take a subspace id
TrackerReads == {"get", "events", "key", "allKeys"}

\* C21: GetSubspaceCausality, GetCausalityEvents, GetCausalityKey and
\* GetAllCausalityKeys return a format error, and then have made no store
\* call, exactly when IsValidSubspaceID is false for the id they are given.
C21_FormatErrorIffInvalid ==
    call.acc \in TrackerReads
       => /\ (call.err = "format") <=> ~IsValidSubspaceID(call.arg)
          /\ call.err = "format" => call.reads = 0
          /\ IsValidSubspaceID(call.arg) => call.reads = 1

\* the key of a malformed id was asked for on a store that holds documents
C21_Witness ==
    /\ call.acc = "key" /\ call.arg = BadSub /\ call.ok
    /\ call.err = "format" /\ call.reads = 0
    /\ store # EmptyMap

\* the store holds no document of type docType under id
HoldsNone(id, docType) == id \notin DOMAIN store \/ store[id].doc_type # docType

\* the absent, empty or zero result of the accessor called last
AbsentResult ==
    CASE call.acc \in {"get", "userGet"} -> IsNil(call.val)
      [] call.acc = "events" -> call.val = << >>
      [] call.acc = "key" -> call.val = 0
      [] call.acc = "allKeys" -> DOMAIN call.val = {}
      [] OTHER -> FALSE

\* C22: a read accessor whose store call succeeds and whose well-formed id
\* has no document of the wanted type returns an absent, empty or zero
\* result and no error (GetSubspaceCausality, GetCausalityEvents,
\* GetCausalityKey, GetAllCausalityKeys, GetUserStats); GetCausalityKey
\* returns 0 and no error for a key id that is not registered for the id.
C22_AbsentIsNoError ==
    /\ (call.acc \in TrackerReads /\ call.ok /\ IsValidSubspaceID(call.arg)
           /\ HoldsNone(call.arg, DocTypeCausality))
          => (call.err = "nil" /\ AbsentResult)
    /\ (call.acc = "userGet" /\ call.ok /\ HoldsNone(call.arg, DocTypeUserStats))
          => (call.err = "nil" /\ AbsentResult)
    /\ (call.acc = "key" /\ call.ok /\ IsValidSubspaceID(call.arg)
           /\ call.extra \notin DOMAIN CausalityKeys(store, call.arg))
          => (call.err = "nil" /\ call.val = 0)

\* C23: a read operation whose store call fails returns the failure to its
\* caller (GetSubspaceCausality and the accessors built on it, GetUserStats,
\* QueryEvents, CountEvents, QuerySubspaces, QueryUserStats,
\* QueryUsersBySubspace).
C23_StoreErrorPropagates ==
    (call.acc # "none" /\ ~call.ok /\ call.reads > 0) => call.err = "store"

\* e has no subspace tag, or the value of its first subspace tag is not a
\* valid subspace id
NoValidSubspace(e) ==
    FirstSubspaceTag(e) = EmptyStr \/ ~IsValidSubspaceID(FirstSubspaceTag(e))

UntrackedEvents == {e \in Events : NoValidSubspace(e)}

\* C24: for an event without a subspace tag, or whose subspace tag value is
\* not a valid id, UpdateFromEvent returns nil and writes nothing: once the
\* primary write of the request succeeded, the tracker's result is nil, it has
\* made no write for the event, and every document other than the event's and
\* the users' is as it was when the request started.
C24_TrackerNoOp ==
    (pc[1] \notin {"idle", "put_event"} /\ perr[1] = "nil" /\ ev[1] \in UntrackedEvents)
       => /\ terr[1] = "nil"
          /\ tlog[ev[1].id] = 0
          /\ \A k \in (DOMAIN store \cup DOMAIN pre[1]) \ ({ev[1].id} \cup Users) :
                Get(store, k) = Get(pre[1], k)

\* a vote with the malformed subspace id was saved on a store that holds the
\* document of Sub1; no document was written under the malformed id
C24_Witness ==
    /\ pc[1] = "done" /\ ev[1] = EvBadSid /\ ret[1] = "nil" /\ terr[1] = "nil"
    /\ Get(pre[1], Sub1) # << >>
    /\ Get(store, BadSub) = << >>

\* the createdSubspaces / joinedSubspaces list of user u in db, empty when u
\* has no document
CreatedOf(db, u) ==
    IF IsNil(GetUserStats(db, u)) THEN << >> ELSE GetUserStats(db, u).created_subspaces

JoinedOf(db, u) ==
    IF IsNil(GetUserStats(db, u)) THEN << >> ELSE GetUserStats(db, u).joined_subspaces

NoDuplicates(list) == \A i, j \in 1..Len(list) : list[i] = list[j] => i = j

\* list became new by adding id once if it was not listed, not at all if it was
AddedOnce(list, new, id) ==
    IF \E i \in 1..Len(list) : list[i] = id THEN new = list
    ELSE new = list \o <<id>>

\* C25: the createdSubspaces and joinedSubspaces lists of every user hold no
\* id twice; a saved creation (join) event with a subspace tag leaves the
\* author's createdSubspaces (joinedSubspaces) list as it was when the id is
\* listed, and appends the id once when it is not.
C25_ListsHaveNoDuplicates ==
    /\ \A u \in Users :
          NoDuplicates(CreatedOf(store, u)) /\ NoDuplicates(JoinedOf(store, u))
    /\ (op = "save" /\ aerr[1] = "nil" /\ FirstSubspaceTag(ev[1]) # EmptyStr)
          => /\ ev[1].kind = KindSubspaceCreate
                   => AddedOnce(CreatedOf(pre[1], ev[1].pubkey),
                                CreatedOf(store, ev[1].pubkey), FirstSubspaceTag(ev[1]))
             /\ ev[1].kind = KindSubspaceJoin
                   => AddedOnce(JoinedOf(pre[1], ev[1].pubkey),
                                JoinedOf(store, ev[1].pubkey), FirstSubspaceTag(ev[1]))

\* UserB, who had joined Sub1, saved the join event again
C25_Witness ==
    /\ op = "save" /\ ev[1] = EvJoin /\ aerr[1] = "nil"
    /\ JoinedOf(pre[1], UserB) = <<Sub1>> /\ JoinedOf(store, UserB) = <<Sub1>>
    /\ started = MaxReadSaves

\* C26: when the read or the write of the inviter's document fails during the
\* update for an invite acceptance, the update goes on to the write of the
\* author's document and returns what that write returns: nil, with the
\* author's total and per-subspace counters of the kind raised by one in the
\* store, or the error of that write, with the store as it was.
C26_InviterFailureIsNotFatal ==
    [][/\ (pc[1] \in {"inv_get", "inv_put"} /\ ierr'[1] = "store")
             => (pc'[1] = "a_put" /\ aerr'[1] = "none" /\ ret'[1] = "none")
       /\ (pc[1] = "a_put" /\ ierr[1] = "store" /\ pc'[1] # "a_put")
             => IF failures' = failures
                THEN /\ aerr'[1] = "nil"
                     /\ TotalOf(store', ev[1].pubkey, ev[1].kind)
                           = TotalOf(pre[1], ev[1].pubkey, ev[1].kind) + 1
                     /\ SubspaceStatOf(store', ev[1].pubkey,
                                       FirstSubspaceTag(ev[1]), ev[1].kind)
                           = SubspaceStatOf(pre[1], ev[1].pubkey,
                                            FirstSubspaceTag(ev[1]), ev[1].kind) + 1
                ELSE aerr'[1] = "store" /\ store' = store]_vars

\* the inviter update of an invite acceptance failed, the author's counters
\* were written and the inviter's document is as it was
C26_Witness ==
    /\ pc[1] = "done" /\ ev[1] = EvInvite /\ ierr[1] = "store" /\ aerr[1] = "nil"
    /\ TotalOf(store, UserB, KindInvite) = TotalOf(pre[1], UserB, KindInvite) + 1
    /\ Get(store, UserA) = Get(pre[1], UserA)

\* the ids of the documents a query returned
ReturnedIDs == {call.val[i].id : i \in 1..Len(call.val)}

\* the query returned no document twice, and each as the store holds it
ReturnedAsStored ==
    /\ \A i, j \in 1..Len(call.val) : call.val[i].id = call.val[j].id => i = j
    /\ \A i \in 1..Len(call.val) :
          call.val[i].id \in DOMAIN store /\ call.val[i] = store[call.val[i].id]

\* the users whose document lists sid in joinedSubspaces
JoinedUsers(sid) ==
    {k \in DOMAIN store :
        /\ store[k].doc_type = DocTypeUserStats
        /\ \E i \in 1..Len(store[k].joined_subspaces) :
              store[k].joined_subspaces[i] = sid}

\* C27: QueryUsersBySubspace(id) returns exactly the user-stats documents
\* whose joinedSubspaces list contains id, each once: not the document of a
\* user who created the subspace, voted in it or invited to it without
\* joining, and no document of another type.
C27_UsersBySubspaceJoinedOnly ==
    (call.acc = "usersBySubspace" /\ call.ok)
       => /\ call.err = "nil"
          /\ ReturnedIDs = JoinedUsers(call.arg)
          /\ ReturnedAsStored

\* UserA created Sub1 and UserB joined it: the query for Sub1 returned the
\* document of UserB alone
C27_Witness ==
    /\ call.acc = "usersBySubspace" /\ call.ok /\ call.arg = Sub1
    /\ CreatedOf(store, UserA) = <<Sub1>> /\ JoinedOf(store, UserA) = << >>
    /\ Get(store, Sub1) # << >>
    /\ Len(call.val) = 1 /\ call.val[1].id = UserB

\* the documents of type docType in the store for which holds is true
\* (holds maps each document to what the predicate returns for it)
Satisfying(docType, holds) ==
    {k \in DOMAIN store : store[k].doc_type = docType /\ holds[store[k]]}

\* what the predicates of the catalogue return, written out on the stored
\* document: nil accepts every document
SubspacePredicate(name) ==
    [d \in Documents(store) |->
        \/ name = "nil"
        \/ name = "has_keys" /\ d.doc_type = DocTypeCausality /\ d.keys # << >>
        \/ name = "two_events" /\ d.doc_type = DocTypeCausality /\ Len(d.events) > 1]

UserPredicate(name) ==
    [d \in Documents(store) |->
        \/ name = "nil"
        \/ name = "voted" /\ d.doc_type = DocTypeUserStats /\ ~d.vote_stats.nil
        \/ name = "creator" /\ d.doc_type = DocTypeUserStats
              /\ d.created_subspaces # << >>]

\* C29: QuerySubspaces(predicate) returns exactly the causality documents of
\* the store that satisfy the predicate, all of them for the nil predicate,
\* each once and no document of another type; QueryUserStats(predicate) does
\* the same for the user-stats documents.
C29_QueriesReturnTheirType ==
    /\ (call.acc = "subspaces" /\ call.ok)
          => /\ call.err = "nil"
             /\ ReturnedIDs = Satisfying(DocTypeCausality, SubspacePredicate(call.extra))
             /\ ReturnedAsStored
    /\ (call.acc = "users" /\ call.ok)
          => /\ call.err = "nil"
             /\ ReturnedIDs = Satisfying(DocTypeUserStats, UserPredicate(call.extra))
             /\ ReturnedAsStored

\* two subspaces have a document, one of them with registered keys; the query
\* for the subspaces with keys returned that one alone
C29_Witness ==
    /\ call.acc = "subspaces" /\ call.ok /\ call.extra = "has_keys"
    /\ Get(store, Sub1) # << >> /\ Get(store, Sub2) # << >>
    /\ Get(store, UserA) # << >>
    /\ Len(call.val) = 1

\* C28: an event query with a Since bound yields only events created at or
\* after Since, with an Until bound only events created at or before Until,
\* with both only events inside the interval; the same holds for the events
\* of the QueryEvents handler's response, given since and until in the body
InBounds(e, bounds) ==
    /\ HasField(bounds, "since") => e.created_at >= bounds.since
    /\ HasField(bounds, "until") => e.created_at <= bounds.until

C28_QueryRespectsTimeBounds ==
    (call.acc \in {"query", "handler"} /\ call.ok) =>
        \A i \in 1..Len(call.val) : InBounds(call.val[i], call.extra)

\* C30: round trip: after save(e) succeeded, a query with ids = [e.id],
\* consumed to the end, yields exactly one event, and its id, author key,
\* creation time, kind, content, signature and ordered tag list are those of e
QueryByID(e) == Filter(<<e.id>>, << >>, << >>, EmptyMap)

SavedThenQueried ==
    /\ op = "save" /\ ret[1] = "nil"
    /\ call.acc = "query" /\ call.ok
    /\ call.extra = QueryByID(ev[1])

SameEvent(a, b) ==
    /\ a.id = b.id /\ a.pubkey = b.pubkey /\ a.created_at = b.created_at
    /\ a.kind = b.kind /\ a.content = b.content /\ a.sig = b.sig
    /\ Len(a.tags) = Len(b.tags)
    /\ \A i \in 1..Len(a.tags) : a.tags[i] = b.tags[i]

C30_RoundTrip ==
    SavedThenQueried => (Len(call.val) = 1 /\ SameEvent(call.val[1], ev[1]))

\* the signed event with content and three tags was saved and queried by id
C30_Witness ==
    /\ SavedThenQueried
    /\ ev[1] = EvSigned
    /\ Len(call.val) = 1 /\ call.val[1].content # EmptyStr /\ Len(call.val[1].tags) = 3

\* C31: in one save call the two derived updates are independent and ordered:
\* both run only after the primary write succeeded, UpdateFromEvent has
\* returned before UpdateUserStatsFromEvent is invoked, and when
\* UpdateFromEvent failed UpdateUserStatsFromEvent was still invoked for the
\* event and, when it succeeded, the author's updated document is stored.
AggregatorSteps == {"a_get", "inv_get", "inv_put", "a_put"}

C31_DerivedUpdatesIndependent ==
    /\ (terr[1] # "none" \/ pc[1] \in {"t_get", "t_put"}) => perr[1] = "nil"
    /\ pc[1] \in {"t_get", "t_put"} => aerr[1] = "none"
    /\ (aerr[1] # "none" \/ pc[1] \in AggregatorSteps)
          => (terr[1] # "none" /\ perr[1] = "nil")
    /\ (pc[1] = "done" /\ terr[1] = "store")
          => /\ aerr[1] # "none"
             /\ aerr[1] = "nil"
                   => GetUserStats(store, ev[1].pubkey)
                         = UpdatedUserStats(GetUserStats(pre[1], ev[1].pubkey), ev[1])

\* the tracker's write of a vote failed and the author's statistics of the
\* same call were stored
C31_Witness ==
    /\ pc[1] = "done" /\ ev[1] = EvVoteYes
    /\ perr[1] = "nil" /\ terr[1] = "store" /\ aerr[1] = "nil"
    /\ TotalOf(store, UserA, KindVote) = TotalOf(pre[1], UserA, KindVote) + 1
    /\ tlog[EvVoteYes.id] = 0

\* C32: after a creation event with an ops tag is processed, the registered
\* key set of the subspace contains the key id of every well-formed
\* name=keyId pair of the tag, whatever the names are.
EqualsSigns(pair) == Cardinality({i \in 1..Len(pair) : pair[i] = "="})

\* what follows the "=" of a pair that has one
KeyIDText(pair) ==
    LET at == CHOOSE i \in 1..Len(pair) : pair[i] = "="
    IN  SubSeq(pair, at + 1, Len(pair))

\* decimal digits only, at least one, and a value that fits 32 bits (ten
\* nines and more never fit; the inputs hold no other literal that long)
WellFormedPair(pair) ==
    /\ EqualsSigns(pair) = 1
    /\ Len(KeyIDText(pair)) \in 1..MaxDigits
    /\ \A i \in 1..Len(KeyIDText(pair)) : KeyIDText(pair)[i] \in DigitChars

PairsOf(opsValue) == {Split(opsValue, ",")[i] : i \in 1..Len(Split(opsValue, ","))}

C32_EveryWellFormedPairRegistered ==
    op = "create"
       => \A pair \in PairsOf(candidate) :
             WellFormedPair(pair)
                => ParseUint(KeyIDText(pair)) \in DOMAIN CausalityKeys(store, Sub1)

\* C33: counters are not idempotent across re-delivery: a successful
\* UpdateFromEvent for a non-creation event whose id is already in the events
\* list of its subspace leaves the list as it is and raises the resolved key
\* counter by 1 again (the key of the event's kind when it is registered,
\* otherwise one of the registered keys whose decimal form ends with the op
\* tag value); a successful UpdateUserStatsFromEvent for an event it has
\* counted before raises the author's total of the kind by 1 again.
Redelivered(db, e) ==
    /\ e.kind # KindSubspaceCreate
    /\ containsString(CausalityEvents(db, TrackedSubspace(e)), e.id)

ResolvedKeys(keys, e) ==
    IF TagValue(e.tags, TagOp) = EmptyStr THEN {}
    ELSE IF e.kind \in DOMAIN keys THEN {e.kind}
    ELSE SuffixKeys(keys, TagValue(e.tags, TagOp))

CountedAgain(old, new, resolved) ==
    IF resolved = {} THEN new = old
    ELSE \E k \in resolved :
            /\ DOMAIN new = DOMAIN old
            /\ \A x \in DOMAIN old : new[x] = IF x = k THEN old[x] + 1 ELSE old[x]

C33_RedeliveryCountsAgain ==
    [][/\ (pc[1] = "t_put" /\ terr'[1] = "nil" /\ Redelivered(store, ev[1]))
             => /\ CausalityEvents(store', TrackedSubspace(ev[1]))
                      = CausalityEvents(store, TrackedSubspace(ev[1]))
                /\ CountedAgain(CausalityKeys(store, TrackedSubspace(ev[1])),
                                CausalityKeys(store', TrackedSubspace(ev[1])),
                                ResolvedKeys(CausalityKeys(store, TrackedSubspace(ev[1])),
                                             ev[1]))
       /\ (pc[1] = "a_put" /\ aerr'[1] = "nil" /\ alog[ev[1].id] > 0)
             => TotalOf(store', ev[1].pubkey, ev[1].kind)
                   = TotalOf(store, ev[1].pubkey, ev[1].kind) + 1]_vars

\* the yes vote was delivered twice: it is listed once, and the vote key and
\* the author's total of votes were raised twice
C33_Witness ==
    /\ pc[1] = "done" /\ ev[1] = EvVoteYes
    /\ tlog[EvVoteYes.id] = 2 /\ alog[EvVoteYes.id] = 2
    /\ Cardinality({i \in 1..Len(CausalityEvents(store, Sub1)) :
                       CausalityEvents(store, Sub1)[i] = EvVoteYes.id}) = 1
    /\ MapGet(CausalityKeys(store, Sub1), KindVote) = 2
    /\ TotalOf(store, UserA, KindVote) = 2

\* C34: UpdateFromEvent is deterministic: for the stored subspace document
\* and the event of the request, the document it is about to write is
\* uniquely determined, also when the event's kind is not a registered key
\* and several registered keys end with the event's op tag value.
WritableDocuments ==
    UpdatedCausality(GetSubspaceCausality(store, TrackedSubspace(ev[1])),
                     TrackedSubspace(ev[1]), ev[1])

C34_TrackerDeterministic ==
    pc[1] = "t_put" => WritableDocuments = {causality[1]}

\* C35: when an invite acceptance names its own author as inviter, the
\* author's stored document after a successful UpdateUserStatsFromEvent holds
\* both effects of the call: the increments of the total and of the subspace
\* statistics of the kind, and the invite bookkeeping (totalInvited + 1,
\* subspaceInvited[S] + 1, one appended record).
SelfInviteSaved ==
    /\ op = "save" /\ ev[1].kind = KindInvite
    /\ FirstSubspaceTag(ev[1]) # EmptyStr
    /\ InviterOf(ev[1]) = ev[1].pubkey
    /\ aerr[1] = "nil" /\ ierr[1] = "nil"

InvitedIn(db, u, S) ==
    IF S \in DOMAIN InviteOf(db, u).invited_users
    THEN InviteOf(db, u).invited_users[S] ELSE << >>

C35_SelfInviteKeepsBothEffects ==
    LET A == ev[1].pubkey
        S == FirstSubspaceTag(ev[1])
    IN  SelfInviteSaved
           => /\ TotalOf(store, A, KindInvite) = TotalOf(pre[1], A, KindInvite) + 1
              /\ SubspaceStatOf(store, A, S, KindInvite)
                    = SubspaceStatOf(pre[1], A, S, KindInvite) + 1
              /\ InviteOf(store, A).total_invited
                    = InviteOf(pre[1], A).total_invited + 1
              /\ MapGet(InviteOf(store, A).subspace_invited, S)
                    = MapGet(InviteOf(pre[1], A).subspace_invited, S) + 1
              /\ InvitedIn(store, A, S)
                    = Append(InvitedIn(pre[1], A, S), [user_id |-> A, subspace_id |-> S])

\* C36: every started event query eventually terminates its producer and
\* closes the output channel, provided the store scan returns and afterwards
\* the consumer keeps receiving until the channel is closed or the
\* cancellation signal eventually fires.
C36_QueryTerminates ==
    (qpc \in {"query", "check", "send", "parked"}) ~> (qpc = "closed")

\* the consumer received one event and stopped, the context was cancelled,
\* and the producer returned with documents left to send
C36_Witness ==
    /\ qpc = "closed" /\ cancelled
    /\ Len(delivered) = 1 /\ qdocs # << >>

\* C37: in every state reached by sequentially executed aggregator updates,
\* the aggregate counters of each user document are the sums of their
\* per-subspace breakdown: total, yes and no votes are the sums of the
\* per-subspace total, yes and no votes, with yes + no <= total; and
\* totalInvited is the sum of subspaceInvited[S] and the number of
\* invited-user records over all S.
RECURSIVE SumMap(_)
SumMap(m) ==
    IF DOMAIN m = {} THEN 0
    ELSE LET k == CHOOSE x \in DOMAIN m : TRUE
         IN  m[k] + SumMap([x \in (DOMAIN m) \ {k} |-> m[x]])

VotesBySubspace(vs, field) ==
    SumMap([S \in DOMAIN vs.subspace_votes |-> vs.subspace_votes[S][field]])

VoteSumsAgree(vs) ==
    /\ vs.total_votes = VotesBySubspace(vs, "total_votes")
    /\ vs.yes_votes = VotesBySubspace(vs, "yes_votes")
    /\ vs.no_votes = VotesBySubspace(vs, "no_votes")
    /\ vs.yes_votes + vs.no_votes <= vs.total_votes

InviteSumsAgree(is) ==
    /\ is.total_invited = SumMap(is.subspace_invited)
    /\ is.total_invited
          = SumMap([S \in DOMAIN is.invited_users |-> Len(is.invited_users[S])])

C37_AggregatesAreSums ==
    \A u \in Users :
       /\ VoteSumsAgree(VoteOf(store, u))
       /\ InviteSumsAgree(InviteOf(store, u))

\* UserA voted in two subspaces, once neither yes nor no, and was named as
\* inviter once
C37_Witness ==
    /\ VoteOf(store, UserA).total_votes = 2
    /\ DOMAIN VoteOf(store, UserA).subspace_votes = {Sub1, BadSub}
    /\ VoteOf(store, UserA).yes_votes + VoteOf(store, UserA).no_votes = 1
    /\ InviteOf(store, UserA).total_invited = 1

\* C38: the two derived indexes agree on the subspace of an event: after a
\* save of e in which every store operation succeeded, if the author's
\* document counts e under subspaceStats[S], or lists S among the created or
\* joined subspaces, then a causality document of S exists and its events
\* list contains e.id.
SavedWithoutFailure ==
    /\ pc[1] = "done" /\ perr[1] = "nil" /\ terr[1] = "nil" /\ aerr[1] = "nil"
    /\ ierr[1] # "store"

CountedUnder(db, e, S) ==
    \/ SubspaceStatOf(db, e.pubkey, S, e.kind) > 0
    \/ containsString(CreatedOf(db, e.pubkey), S)
    \/ containsString(JoinedOf(db, e.pubkey), S)

C38_IndexesAgree ==
    SavedWithoutFailure
       => \A S \in Subspaces :
             (FirstSubspaceTag(ev[1]) = S /\ CountedUnder(store, ev[1], S))
                => /\ ~IsNil(GetSubspaceCausality(store, S))
                   /\ containsString(CausalityEvents(store, S), ev[1].id)

\* C39: whenever an Init call returned nil and no Close call has followed
\* it, the next GetStore returns the store without error; this includes an
\* Init call made after an earlier Init failed and one made after Close.
C39_GetStoreAfterInit ==
    (call.acc = "GetStore" /\ handle.promised) => call.err = "nil"
====
